---- MODULE Spec2Model ----
(***************************************************************************)
(* THE MATH OF TIME (src/sketch.js): the input handler keyPressed() and    *)
(* the per-frame callback draw(), as a state machine over the sketch's     *)
(* global variables.                                                       *)
(*                                                                         *)
(* Time.  millis(), deltaTime, rouletteNextAt, rouletteInterval,           *)
(* inputHintTimer and fadeTimer are JavaScript numbers.  The model keeps   *)
(* them as integers in units of 1/1000 ms (fixed point), so that the       *)
(* brake multiplication by 1.18 is x * 118 \div 100 with three decimal     *)
(* places of a millisecond kept.  fadeTimer, which the source keeps in     *)
(* seconds, is kept in the same unit; its windows 1.5, 11.5, 13, 14.5 and  *)
(* 23 seconds are converted with Sec10().                                  *)
(*                                                                         *)
(* The typing buffer timeInput is a sequence of one-character strings.     *)
(***************************************************************************)
EXTENDS Integers, Sequences, FiniteSets, TLC

\* ------------------------------------------------------------------
\* Program constants (src/sketch.js:62-67, 288-312)
\* ------------------------------------------------------------------
ROULETTE_FAST == 90
ROULETTE_SLOW_STOP == 950
\* ROULETTE_BRAKE_MULT = 1.18 = BRAKE_MULT_NUM / BRAKE_MULT_DEN
BRAKE_MULT_NUM == 118
BRAKE_MULT_DEN == 100
\* phase windows, in tenths of a second: 1.5, 11.5, 13.0, 14.5, 23.0
WIN_A == 15
WIN_B == 115
WIN_C == 130
WIN_D == 145
CYCLE_LEN == 230
\* timeInput.length < 8
INPUT_MAX == 8
\* design space and content band (src/sketch.js:19-28)
DESIGN_W == 1080
CONTENT_TOP_BASE == -180
CONTENT_BOTTOM_BASE == 1120
CONTENT_PAD == 80
CONTENT_MIN_Y == CONTENT_TOP_BASE - CONTENT_PAD
CONTENT_MAX_Y == CONTENT_BOTTOM_BASE + CONTENT_PAD

\* model time unit: 1/1000 ms
Ms(x) == x * 1000
Sec10(x) == x * 100000

\* ------------------------------------------------------------------
\* Bounds of the exploration
\* ------------------------------------------------------------------
\* Spec: frames are drawn while the clock is at most MaxNow (ms)
MaxNow == 2000
\* SpecRoulette: a horizon (ms) long enough for a whole brake and a new spin
MaxNowRoulette == 11000
\* SpecBrake: keys are pressed before KeyDeadline (ms), frames drawn up to MaxNowBrake
KeyDeadline == 2000
MaxNowBrake == 24000
\* SpecPhase: the cycle clock starts anywhere in 0..MaxFade (ms)
MaxFade == 24000
\* the environment types at most MaxTyped characters into the buffer
MaxTyped == 3
\* SpecTime: frames are drawn while the clock is at most MaxNowTime (ms)
MaxNowTime == 1000
\* SpecView: frames are drawn while the clock is at most MaxNowView (ms)
MaxNowView == 2000
\* SpecFrame: frames are drawn while the clock is at most MaxNowFrame (ms)
MaxNowFrame == 2000

\* frame deltas (ms) offered to draw()
Deltas == {500, 1000}
\* keys offered to keyPressed(); "x" stands for any key the handler ignores
TypedChars == {"5", ":"}
Keys == {"r", "R", "z", "Z", " ", "1", "2", "3", "t", "T",
         "Escape", "Enter", "Backspace", "x"} \cup TypedChars
\* the keys that reach the roulette's state, and the phase keys with reset
RouletteKeys == {"z", "r", "t"}
PhaseKeys == {" ", "1", "2", "3", "r"}
\* frame deltas (ms) of SpecPhase
PhaseDeltas == {1, 16}
\* canvas sizes <<windowWidth, windowHeight>>; Canvas0 is the window at setup()
Widths == {1, 109, 540, 1079, 1080, 1081, 1920, 2160}
Heights == {1, 500, 730, 1080, 1459, 1460, 1461, 2920}
Viewports == Widths \X Heights
Canvas0 == <<1920, 1080>>
\* values floor(random(..)) may return, as <<h, m, s>>
RandTimes == {<<0, 0, 0>>, <<23, 59, 59>>}

VARIABLES
    now,                 \* millis() as read by the running handler
    fadeTimer, geoAlpha, triContentAlpha,
    useLiveTime, manualH, manualM, manualS,
    typingMode, timeInput, inputHintTimer,
    rouletteState, rouletteNextAt, rouletteInterval,
    phaseMode, manualPhaseEnabled,
    width, height,       \* the canvas size, in pixels
    sc, gOffX, gOffY, gSc,   \* the frame's scale and offsets, and their cached copies
    parseIn, parseOut,   \* one call parseOut = parseTimeString(parseIn)
    frame,               \* SpecPipeline: the blocks of draw() run so far in this
                         \* frame, its local values and what it has drawn
    runs,                \* SpecFrame: what two runs of the last frame put out
    submitAt,            \* SpecHint: millis() at the Enter that rejected the buffer
                         \* as it is now, -1 if there was none since the last edit
    last,                \* what ran last: "setup", "draw", "key", "set" for a direct call
                         \* of setManualTime(), "parse" for one of parseTimeString(),
                         \* "resize" for windowResized()
    ref                  \* the phase state of the same run without its phase-lock keys
                         \* (and, in lockDrawn, whether this run drew a frame under a lock)

timeVars == <<useLiveTime, manualH, manualM, manualS>>
typingVars == <<typingMode, timeInput, inputHintTimer>>
rouletteVars == <<rouletteState, rouletteNextAt, rouletteInterval>>
phaseVars == <<fadeTimer, geoAlpha, triContentAlpha, phaseMode, manualPhaseEnabled>>
viewVars == <<width, height, sc, gOffX, gOffY, gSc>>
parseVars == <<parseIn, parseOut>>
vars == <<now, timeVars, typingVars, rouletteVars, phaseVars, viewVars, parseVars,
          frame, runs, submitAt, last, ref>>

\* ------------------------------------------------------------------
\* HELPERS
\* ------------------------------------------------------------------
Max(a, b) == IF a >= b THEN a ELSE b
Min(a, b) == IF a <= b THEN a ELSE b

\* ---- IEEE 754 double arithmetic ------------------------------------
\* The numbers of the viewport transform are doubles.  A double is the record
\* [neg, mag]: mag is its magnitude in fixed point, LIMBS limbs of 15 bits,
\* the first one the integer part, the others the fraction.  Every operation
\* computes the exact result and rounds it to 53 significant bits, ties to
\* even, as the hardware does.  The values of the transform (between 2^-12
\* and 2^15, differences down to 2^-65) are written exactly in this format.
LIMB == 32768
LIMBS == 6

Zeros(n) == [i \in 1..n |-> 0]

RECURSIVE bitLength(_)
bitLength(x) == IF x = 0 THEN 0 ELSE 1 + bitLength(x \div 2)

RECURSIVE pow2(_)
pow2(n) == IF n = 0 THEN 1 ELSE 2 * pow2(n - 1)

\* magnitudes compared limb by limb: -1, 0 or 1
RECURSIVE magCompare(_, _)
magCompare(a, b) ==
    IF a = <<>> THEN 0
    ELSE IF Head(a) < Head(b) THEN -1
    ELSE IF Head(a) > Head(b) THEN 1
    ELSE magCompare(Tail(a), Tail(b))

\* m with the carry of limb j taken into the limbs before it
RECURSIVE magCarry(_, _)
magCarry(m, j) ==
    IF j > 1 /\ m[j] >= LIMB
    THEN magCarry([m EXCEPT ![j] = @ - LIMB, ![j - 1] = @ + 1], j - 1)
    ELSE m

\* the exact magnitude m (plus less than one unit of the last limb if sticky)
\* rounded to 53 significant bits, ties to even
roundToDouble(m, sticky) ==
    IF \A i \in 1..LIMBS : m[i] = 0 THEN m
    ELSE
        LET i == CHOOSE x \in 1..LIMBS : m[x] # 0 /\ \A y \in 1..(x - 1) : m[y] = 0
            \* the last bit kept, counted from the first bit of the first limb
            k == (i - 1) * 15 + (15 - bitLength(m[i])) + 52
            j == (k \div 15) + 1
            u == pow2(14 - (k % 15))
        IN  IF j > LIMBS THEN m
            ELSE
                LET dropped == <<m[j] % u>> \o SubSeq(m, j + 1, LIMBS)
                    half == IF u > 1 THEN <<u \div 2>> \o Zeros(LIMBS - j)
                            ELSE IF j < LIMBS
                            THEN <<0, LIMB \div 2>> \o Zeros(LIMBS - j - 1)
                            ELSE <<1>>
                    c0 == magCompare(dropped, half)
                    c == IF c0 = 0 /\ sticky THEN 1 ELSE c0
                    up == c > 0 \/ (c = 0 /\ (m[j] \div u) % 2 = 1)
                    kept == SubSeq(m, 1, j - 1) \o <<m[j] - (m[j] % u)>>
                                \o Zeros(LIMBS - j)
                IN  IF up THEN magCarry([kept EXCEPT ![j] = @ + u], j) ELSE kept

\* the integer n >= 0 as a double
fpInt(n) == [neg |-> FALSE, mag |-> <<n>> \o Zeros(LIMBS - 1)]

\* the limbs of r / d after the point, and the remainder left after them
RECURSIVE divLimbs(_, _, _)
divLimbs(r, d, k) ==
    IF k = 0 THEN <<>>
    ELSE <<(r * LIMB) \div d>> \o divLimbs((r * LIMB) % d, d, k - 1)

RECURSIVE divRem(_, _, _)
divRem(r, d, k) == IF k = 0 THEN r ELSE divRem((r * LIMB) % d, d, k - 1)

\* n / d for integers n >= 0, d > 0
fpDiv(n, d) ==
    [neg |-> FALSE,
     mag |-> roundToDouble(<<n \div d>> \o divLimbs(n % d, d, LIMBS - 1),
                           divRem(n % d, d, LIMBS - 1) # 0)]

RECURSIVE mulLimbs(_, _, _, _)
mulLimbs(c, m, i, carry) ==
    LET t == c * m[i] + carry
    IN  IF i = 1 THEN <<t>>
        ELSE mulLimbs(c, m, i - 1, t \div LIMB) \o <<t % LIMB>>

\* c * x for an integer c > 0
fpMul(c, x) ==
    [neg |-> x.neg, mag |-> roundToDouble(mulLimbs(c, x.mag, LIMBS, 0), FALSE)]

\* a - b for magnitudes a >= b
RECURSIVE subLimbs(_, _, _, _)
subLimbs(a, b, i, borrow) ==
    LET t == a[i] - b[i] - borrow
    IN  IF i = 1 THEN <<t>>
        ELSE subLimbs(a, b, i - 1, IF t < 0 THEN 1 ELSE 0)
                 \o <<IF t < 0 THEN t + LIMB ELSE t>>

\* x - y for doubles x, y >= 0
fpSub(x, y) ==
    IF magCompare(x.mag, y.mag) < 0
    THEN [neg |-> TRUE, mag |-> roundToDouble(subLimbs(y.mag, x.mag, LIMBS, 0), FALSE)]
    ELSE [neg |-> FALSE, mag |-> roundToDouble(subLimbs(x.mag, y.mag, LIMBS, 0), FALSE)]

RECURSIVE halfLimbs(_, _, _)
halfLimbs(m, i, carry) ==
    IF i > LIMBS THEN <<>>
    ELSE LET t == carry * LIMB + m[i]
         IN  <<t \div 2>> \o halfLimbs(m, i + 1, t % 2)

\* x / 2
fpHalf(x) == [neg |-> x.neg, mag |-> roundToDouble(halfLimbs(x.mag, 1, 0), FALSE)]

\* Math.min(x, y) for doubles x, y >= 0
fpMin(x, y) == IF magCompare(y.mag, x.mag) < 0 THEN y ELSE x

\* a + b for magnitudes
RECURSIVE addLimbs(_, _, _, _)
addLimbs(a, b, i, carry) ==
    LET t == a[i] + b[i] + carry
    IN  IF i = 1 THEN <<t>>
        ELSE addLimbs(a, b, i - 1, t \div LIMB) \o <<t % LIMB>>

\* | |a| - |b| | for magnitudes
magDiff(a, b) ==
    IF magCompare(a, b) < 0 THEN subLimbs(b, a, LIMBS, 0)
    ELSE subLimbs(a, b, LIMBS, 0)

\* x + y for doubles of either sign
fpAdd(x, y) ==
    IF x.neg = y.neg
    THEN [neg |-> x.neg,
          mag |-> roundToDouble(addLimbs(x.mag, y.mag, LIMBS, 0), FALSE)]
    ELSE [neg |-> IF magCompare(x.mag, y.mag) < 0 THEN y.neg
                  ELSE x.neg /\ magCompare(x.mag, y.mag) > 0,
          mag |-> roundToDouble(magDiff(x.mag, y.mag), FALSE)]

\* ---- JavaScript numbers of any magnitude ----------------------------
\* An integer-valued number n is the record [hi, lo] with n = hi * 2^31 + lo
\* and 0 <= lo < 2^31, so that values at and beyond 2^31 can be written.
INT32_MAX == 2147483647
Number(i) == [hi |-> IF i < 0 THEN -1 ELSE 0,
              lo |-> IF i < 0 THEN (i + INT32_MAX) + 1 ELSE i]

\* v | 0 (ToInt32): the low 32 bits of v, read as a signed integer
ToInt32(v) == IF v.hi % 2 = 0 THEN v.lo ELSE (v.lo - INT32_MAX) - 1

\* Math.max(a, Math.min(b, v | 0))
clampInt(v, a, b) == Max(a, Min(b, ToInt32(v)))

\* setManualTime(h, m, s)
setManualTime(h, m, s) ==
    /\ manualH' = clampInt(h, 0, 23)
    /\ manualM' = clampInt(m, 0, 59)
    /\ manualS' = clampInt(s, 0, 59)
    /\ useLiveTime' = FALSE

\* setRandomTime(): three floor(random(..)) draws, then setManualTime
setRandomTime ==
    \E r \in RandTimes : setManualTime(Number(r[1]), Number(r[2]), Number(r[3]))

\* ---- parseTimeString -------------------------------------------------
Digits == {"0", "1", "2", "3", "4", "5", "6", "7", "8", "9"}
DigitVal(c) == CASE c = "0" -> 0 [] c = "1" -> 1 [] c = "2" -> 2 [] c = "3" -> 3
                 [] c = "4" -> 4 [] c = "5" -> 5 [] c = "6" -> 6 [] c = "7" -> 7
                 [] c = "8" -> 8 [] c = "9" -> 9

\* str.split(":"): the parts between the colons, empty parts included
RECURSIVE split(_)
split(str) ==
    IF \A i \in 1..Len(str) : str[i] # ":"
    THEN <<str>>
    ELSE LET i == CHOOSE j \in 1..Len(str) :
                      str[j] = ":" /\ \A k \in 1..(j - 1) : str[k] # ":"
         IN  <<SubSeq(str, 1, i - 1)>> \o split(SubSeq(str, i + 1, Len(str)))

\* the value of a run of leading digits
RECURSIVE digitsValue(_, _)
digitsValue(part, acc) ==
    IF part = <<>> \/ Head(part) \notin Digits
    THEN acc
    ELSE digitsValue(Tail(part), acc * 10 + DigitVal(Head(part)))

parseIntEmptyIsZero(part) ==
    IF part # <<>> /\ Head(part) \notin Digits
    THEN [nan |-> TRUE, v |-> 0]
    ELSE [nan |-> FALSE, v |-> digitsValue(part, 0)]

\* parseInt(part, 10): the value of the leading run of digits, NaN if there is none
parseInt(part) ==
    IF part = <<>> \/ Head(part) \notin Digits
    THEN [nan |-> TRUE, v |-> 0]
    ELSE [nan |-> FALSE, v |-> digitsValue(part, 0)]

null == [ok |-> FALSE]

\* parseTimeString(str); trim() leaves a buffer of digits and colons as it is
parseTimeString(str) ==
    LET parts == split(str) IN
    IF Len(parts) < 2 \/ Len(parts) > 3 THEN null
    ELSE LET h == parseInt(parts[1])
             m == parseInt(parts[2])
             s == IF Len(parts) = 3 THEN parseInt(parts[3]) ELSE [nan |-> FALSE, v |-> 0]
         IN  IF h.nan \/ m.nan \/ s.nan THEN null
             ELSE IF h.v < 0 \/ h.v > 23 THEN null
             ELSE IF m.v < 0 \/ m.v > 59 THEN null
             ELSE IF s.v < 0 \/ s.v > 59 THEN null
             ELSE [ok |-> TRUE, h |-> h.v, m |-> m.v, s |-> s.v]

\* ------------------------------------------------------------------
\* ROULETTE
\* ------------------------------------------------------------------
rouletteStartSkipsManual ==
    /\ typingMode' = FALSE
    /\ timeInput' = <<>>
    /\ inputHintTimer' = 0
    /\ useLiveTime' = useLiveTime
    /\ rouletteState' = "spin"
    /\ rouletteInterval' = Ms(ROULETTE_FAST)
    /\ rouletteNextAt' = now

rouletteStart ==
    /\ typingMode' = FALSE
    /\ timeInput' = <<>>
    /\ inputHintTimer' = 0
    /\ useLiveTime' = FALSE
    /\ rouletteState' = "spin"
    /\ rouletteInterval' = Ms(ROULETTE_FAST)
    /\ rouletteNextAt' = now

rouletteBeginBrakeNoSchedule ==
    /\ rouletteState' = "brake"
    /\ rouletteNextAt' = rouletteNextAt

rouletteBeginBrake ==
    /\ rouletteState' = "brake"
    /\ rouletteNextAt' = now + rouletteInterval

rouletteStop ==
    rouletteState' = "off"

\* ------------------------------------------------------------------
\* INPUT
\* ------------------------------------------------------------------
\* p5's keyCode constants, named by the key that produces them
ESCAPE == "Escape"
ENTER == "Enter"
RETURN == "Enter"
BACKSPACE == "Backspace"
keyCode(key) == key

\* RESET
keyResetKeepsBuffer ==
    /\ rouletteStop
    /\ typingMode' = FALSE
    /\ useLiveTime' = TRUE
    /\ manualPhaseEnabled' = FALSE
    /\ phaseMode' = "auto"
    /\ UNCHANGED <<manualH, manualM, manualS, timeInput, inputHintTimer,
                   rouletteNextAt, rouletteInterval, fadeTimer, geoAlpha,
                   triContentAlpha>>

keyReset ==
    /\ rouletteStop
    /\ typingMode' = FALSE
    /\ timeInput' = <<>>
    /\ useLiveTime' = TRUE
    /\ manualPhaseEnabled' = FALSE
    /\ phaseMode' = "auto"
    /\ UNCHANGED <<manualH, manualM, manualS, inputHintTimer, rouletteNextAt,
                   rouletteInterval, fadeTimer, geoAlpha, triContentAlpha>>

\* ROULETTE TOGGLE (slow brake)
keyRoulette ==
    CASE rouletteState = "off" ->
            /\ rouletteStart
            /\ UNCHANGED <<manualH, manualM, manualS, phaseVars>>
      [] rouletteState = "spin" ->
            /\ rouletteBeginBrake
            /\ UNCHANGED <<timeVars, typingVars, rouletteInterval, phaseVars>>
      [] rouletteState = "brake" ->
            /\ rouletteStop
            /\ UNCHANGED <<timeVars, typingVars, rouletteNextAt, rouletteInterval,
                           phaseVars>>

\* phase control: Space
keySpace ==
    /\ manualPhaseEnabled' = ~manualPhaseEnabled
    /\ phaseMode' = IF ~manualPhaseEnabled' THEN "auto" ELSE "geo"
    /\ UNCHANGED <<timeVars, typingVars, rouletteVars, fadeTimer, geoAlpha,
                   triContentAlpha>>

\* phase control: 1 geo, 2 tri, 3 auto
keyPhaseAutoKeepsLock(key) ==
    /\ manualPhaseEnabled' = IF key = "3" THEN manualPhaseEnabled ELSE TRUE
    /\ phaseMode' = CASE key = "1" -> "geo" [] key = "2" -> "tri" [] key = "3" -> "auto"
    /\ UNCHANGED <<timeVars, typingVars, rouletteVars, fadeTimer, geoAlpha,
                   triContentAlpha>>

keyPhase(key) ==
    /\ manualPhaseEnabled' = (key # "3")
    /\ phaseMode' = CASE key = "1" -> "geo" [] key = "2" -> "tri" [] key = "3" -> "auto"
    /\ UNCHANGED <<timeVars, typingVars, rouletteVars, fadeTimer, geoAlpha,
                   triContentAlpha>>

\* type in time
keyTypeKeepsRoulette ==
    /\ rouletteState' = rouletteState
    /\ typingMode' = ~typingMode
    /\ IF typingMode'
       THEN timeInput' = <<>> /\ inputHintTimer' = now
       ELSE UNCHANGED <<timeInput, inputHintTimer>>
    /\ UNCHANGED <<timeVars, rouletteNextAt, rouletteInterval, phaseVars>>

keyTypeKeepsBuffer ==
    /\ rouletteStop
    /\ typingMode' = ~typingMode
    /\ IF typingMode'
       THEN timeInput' = timeInput /\ inputHintTimer' = now
       ELSE UNCHANGED <<timeInput, inputHintTimer>>
    /\ UNCHANGED <<timeVars, rouletteNextAt, rouletteInterval, phaseVars>>

keyTypeGoesLive ==
    /\ rouletteStop
    /\ typingMode' = ~typingMode
    /\ IF typingMode'
       THEN timeInput' = <<>> /\ inputHintTimer' = now
       ELSE UNCHANGED <<timeInput, inputHintTimer>>
    /\ useLiveTime' = TRUE
    /\ UNCHANGED <<manualH, manualM, manualS, rouletteNextAt, rouletteInterval,
                   phaseVars>>

keyType ==
    /\ rouletteStop
    /\ typingMode' = ~typingMode
    /\ IF typingMode'
       THEN timeInput' = <<>> /\ inputHintTimer' = now
       ELSE UNCHANGED <<timeInput, inputHintTimer>>
    /\ UNCHANGED <<timeVars, rouletteNextAt, rouletteInterval, phaseVars>>

keyTypingFailedEnterClears(key) ==
    IF keyCode(key) = ESCAPE THEN
        /\ typingMode' = FALSE
        /\ timeInput' = <<>>
        /\ UNCHANGED <<timeVars, inputHintTimer, rouletteVars, phaseVars>>
    ELSE IF keyCode(key) = ENTER \/ keyCode(key) = RETURN THEN
        LET parsed == parseTimeString(timeInput) IN
        IF parsed.ok THEN
            /\ rouletteStop
            /\ setManualTime(Number(parsed.h), Number(parsed.m), Number(parsed.s))
            /\ typingMode' = FALSE
            /\ timeInput' = <<>>
            /\ UNCHANGED <<inputHintTimer, rouletteNextAt, rouletteInterval, phaseVars>>
        ELSE
            /\ inputHintTimer' = now
            /\ timeInput' = <<>>
            /\ UNCHANGED <<timeVars, typingMode, rouletteVars, phaseVars>>
    ELSE IF keyCode(key) = BACKSPACE THEN
        /\ timeInput' = SubSeq(timeInput, 1, Len(timeInput) - 1)
        /\ UNCHANGED <<timeVars, typingMode, inputHintTimer, rouletteVars, phaseVars>>
    ELSE IF key \in Digits \/ key = ":" THEN
        /\ timeInput' = IF Len(timeInput) < INPUT_MAX
                        THEN Append(timeInput, key) ELSE timeInput
        /\ UNCHANGED <<timeVars, typingMode, inputHintTimer, rouletteVars, phaseVars>>
    ELSE
        UNCHANGED <<timeVars, typingVars, rouletteVars, phaseVars>>

\* typing mode keys
keyTyping(key) ==
    IF keyCode(key) = ESCAPE THEN
        /\ typingMode' = FALSE
        /\ timeInput' = <<>>
        /\ UNCHANGED <<timeVars, inputHintTimer, rouletteVars, phaseVars>>
    ELSE IF keyCode(key) = ENTER \/ keyCode(key) = RETURN THEN
        LET parsed == parseTimeString(timeInput) IN
        IF parsed.ok THEN
            /\ rouletteStop
            /\ setManualTime(Number(parsed.h), Number(parsed.m), Number(parsed.s))
            /\ typingMode' = FALSE
            /\ timeInput' = <<>>
            /\ UNCHANGED <<inputHintTimer, rouletteNextAt, rouletteInterval, phaseVars>>
        ELSE
            /\ inputHintTimer' = now
            /\ UNCHANGED <<timeVars, typingMode, timeInput, rouletteVars, phaseVars>>
    ELSE IF keyCode(key) = BACKSPACE THEN
        /\ timeInput' = SubSeq(timeInput, 1, Len(timeInput) - 1)
        /\ UNCHANGED <<timeVars, typingMode, inputHintTimer, rouletteVars, phaseVars>>
    ELSE IF key \in Digits \/ key = ":" THEN
        /\ timeInput' = IF Len(timeInput) < INPUT_MAX
                        THEN Append(timeInput, key) ELSE timeInput
        /\ UNCHANGED <<timeVars, typingMode, inputHintTimer, rouletteVars, phaseVars>>
    ELSE
        UNCHANGED <<timeVars, typingVars, rouletteVars, phaseVars>>

\* keyPressed(): one key event, read at clock value now
keyPressed(key) ==
    /\ IF key = "r" \/ key = "R" THEN keyReset
       ELSE IF key = "z" \/ key = "Z" THEN keyRoulette
       ELSE IF key = " " THEN keySpace
       ELSE IF key = "1" \/ key = "2" \/ key = "3" THEN keyPhase(key)
       ELSE IF key = "t" \/ key = "T" THEN keyType
       ELSE IF typingMode THEN keyTyping(key)
       ELSE UNCHANGED <<timeVars, typingVars, rouletteVars, phaseVars>>
    /\ last' = "key"
    /\ UNCHANGED <<now, viewVars, parseVars, runs, frame, ref>>

\* ------------------------------------------------------------------
\* DRAW
\* ------------------------------------------------------------------
\* roulette tick + slow brake, with t = millis()
drawRouletteNoStop(t) ==
    IF rouletteState # "off" /\ t >= rouletteNextAt THEN
        /\ setRandomTime
        /\ IF rouletteState = "spin" THEN
               /\ rouletteInterval' = Ms(ROULETTE_FAST)
               /\ rouletteNextAt' = t + rouletteInterval'
               /\ UNCHANGED rouletteState
           ELSE
               /\ rouletteInterval' =
                      (rouletteInterval * BRAKE_MULT_NUM) \div BRAKE_MULT_DEN
               /\ rouletteNextAt' = t + rouletteInterval'
               /\ UNCHANGED rouletteState
    ELSE
        UNCHANGED <<timeVars, rouletteVars>>

drawRouletteLateStop(t) ==
    IF rouletteState # "off" /\ t >= rouletteNextAt THEN
        /\ setRandomTime
        /\ IF rouletteState = "spin" THEN
               /\ rouletteInterval' = Ms(ROULETTE_FAST)
               /\ rouletteNextAt' = t + rouletteInterval'
               /\ UNCHANGED rouletteState
           ELSE
               /\ rouletteInterval' =
                      (rouletteInterval * BRAKE_MULT_NUM) \div BRAKE_MULT_DEN
               /\ rouletteNextAt' = t + rouletteInterval'
               /\ IF rouletteInterval >= Ms(ROULETTE_SLOW_STOP)
                  THEN rouletteStop
                  ELSE UNCHANGED rouletteState
    ELSE
        UNCHANGED <<timeVars, rouletteVars>>

drawRouletteTicksWhenOff(t) ==
    IF t >= rouletteNextAt THEN
        /\ setRandomTime
        /\ IF rouletteState = "spin" THEN
               /\ rouletteInterval' = Ms(ROULETTE_FAST)
               /\ rouletteNextAt' = t + rouletteInterval'
               /\ UNCHANGED rouletteState
           ELSE
               /\ rouletteInterval' =
                      (rouletteInterval * BRAKE_MULT_NUM) \div BRAKE_MULT_DEN
               /\ rouletteNextAt' = t + rouletteInterval'
               /\ IF rouletteInterval' >= Ms(ROULETTE_SLOW_STOP)
                  THEN rouletteStop
                  ELSE UNCHANGED rouletteState
    ELSE
        UNCHANGED <<timeVars, rouletteVars>>

drawRouletteSpinBrakes(t) ==
    IF rouletteState # "off" /\ t >= rouletteNextAt THEN
        /\ setRandomTime
        /\ rouletteInterval' =
               (rouletteInterval * BRAKE_MULT_NUM) \div BRAKE_MULT_DEN
        /\ rouletteNextAt' = t + rouletteInterval'
        /\ IF rouletteInterval' >= Ms(ROULETTE_SLOW_STOP)
           THEN rouletteStop
           ELSE rouletteState' = "brake"
    ELSE
        UNCHANGED <<timeVars, rouletteVars>>

drawRouletteAfterDue(t) ==
    IF rouletteState # "off" /\ t > rouletteNextAt THEN
        /\ setRandomTime
        /\ IF rouletteState = "spin" THEN
               /\ rouletteInterval' = Ms(ROULETTE_FAST)
               /\ rouletteNextAt' = t + rouletteInterval'
               /\ UNCHANGED rouletteState
           ELSE
               /\ rouletteInterval' =
                      (rouletteInterval * BRAKE_MULT_NUM) \div BRAKE_MULT_DEN
               /\ rouletteNextAt' = t + rouletteInterval'
               /\ IF rouletteInterval' >= Ms(ROULETTE_SLOW_STOP)
                  THEN rouletteStop
                  ELSE UNCHANGED rouletteState
    ELSE
        UNCHANGED <<timeVars, rouletteVars>>

drawRoulette(t) ==
    IF rouletteState # "off" /\ t >= rouletteNextAt THEN
        /\ setRandomTime
        /\ IF rouletteState = "spin" THEN
               /\ rouletteInterval' = Ms(ROULETTE_FAST)
               /\ rouletteNextAt' = t + rouletteInterval'
               /\ UNCHANGED rouletteState
           ELSE
               /\ rouletteInterval' =
                      (rouletteInterval * BRAKE_MULT_NUM) \div BRAKE_MULT_DEN
               /\ rouletteNextAt' = t + rouletteInterval'
               /\ IF rouletteInterval' >= Ms(ROULETTE_SLOW_STOP)
                  THEN rouletteStop
                  ELSE UNCHANGED rouletteState
    ELSE
        UNCHANGED <<timeVars, rouletteVars>>

\* Math.floor(map(f, 0, 1, from, to)) with f = num / den, 0 <= num, den > 0:
\* map gives from + f * (to - from)
floorMap(num, den, from, to) ==
    (from * den + num * (to - from)) \div den

\* the phase record draw() works on
PhaseState ==
    [fadeTimer |-> fadeTimer, geoAlpha |-> geoAlpha,
     triContentAlpha |-> triContentAlpha, phaseMode |-> phaseMode,
     manualPhaseEnabled |-> manualPhaseEnabled]

\* fadeTimer += dt
drawTimersPausedByLock(p, dt) ==
    [p EXCEPT !.fadeTimer = IF p.manualPhaseEnabled THEN @ ELSE @ + dt]

drawTimers(p, dt) ==
    [p EXCEPT !.fadeTimer = @ + dt]

\* PHASES (auto) OR manual phase lock, on cycle = fadeTimer % 23.0
drawPhasesWrongWindow(p) ==
    LET cycle == p.fadeTimer % Sec10(CYCLE_LEN) IN
    IF ~p.manualPhaseEnabled /\ p.phaseMode = "auto" THEN
        IF cycle <= Sec10(WIN_A) THEN
            [p EXCEPT !.geoAlpha = floorMap(cycle, Sec10(WIN_A), 255, 0),
                      !.triContentAlpha = 0]
        ELSE IF cycle < Sec10(WIN_B) THEN
            [p EXCEPT !.geoAlpha = 0, !.triContentAlpha = 255]
        ELSE IF cycle < Sec10(WIN_C) THEN
            [p EXCEPT !.geoAlpha = 0,
                      !.triContentAlpha =
                          floorMap(cycle - Sec10(WIN_B), Sec10(WIN_C - WIN_B), 255, 0)]
        ELSE IF cycle < Sec10(WIN_D) THEN
            [p EXCEPT !.triContentAlpha = 0,
                      !.geoAlpha =
                          floorMap(cycle - Sec10(WIN_C), Sec10(WIN_D - WIN_C), 0, 255)]
        ELSE
            [p EXCEPT !.geoAlpha = 255, !.triContentAlpha = 0]
    ELSE
        IF p.phaseMode = "tri" THEN
            [p EXCEPT !.geoAlpha = 0, !.triContentAlpha = 255]
        ELSE IF p.phaseMode = "geo" THEN
            [p EXCEPT !.geoAlpha = 255, !.triContentAlpha = 0]
        ELSE
            [p EXCEPT !.manualPhaseEnabled = FALSE, !.phaseMode = "auto"]

drawPhasesCrossFade(p) ==
    LET cycle == p.fadeTimer % Sec10(CYCLE_LEN) IN
    IF ~p.manualPhaseEnabled /\ p.phaseMode = "auto" THEN
        IF cycle < Sec10(WIN_A) THEN
            [p EXCEPT !.geoAlpha = floorMap(cycle, Sec10(WIN_A), 255, 0),
                      !.triContentAlpha = 0]
        ELSE IF cycle < Sec10(WIN_B) THEN
            [p EXCEPT !.geoAlpha = 0, !.triContentAlpha = 255]
        ELSE IF cycle < Sec10(WIN_C) THEN
            [p EXCEPT !.geoAlpha =
                          floorMap(cycle - Sec10(WIN_B), Sec10(WIN_C - WIN_B), 0, 255),
                      !.triContentAlpha =
                          floorMap(cycle - Sec10(WIN_B), Sec10(WIN_C - WIN_B), 255, 0)]
        ELSE
            [p EXCEPT !.geoAlpha = 255, !.triContentAlpha = 0]
    ELSE
        IF p.phaseMode = "tri" THEN
            [p EXCEPT !.geoAlpha = 0, !.triContentAlpha = 255]
        ELSE IF p.phaseMode = "geo" THEN
            [p EXCEPT !.geoAlpha = 255, !.triContentAlpha = 0]
        ELSE
            [p EXCEPT !.manualPhaseEnabled = FALSE, !.phaseMode = "auto"]

drawPhasesLockFollowsCycle(p) ==
    LET cycle == p.fadeTimer % Sec10(CYCLE_LEN) IN
    IF p.phaseMode = "tri" /\ cycle >= Sec10(WIN_D) THEN
        [p EXCEPT !.geoAlpha = 255, !.triContentAlpha = 255]
    ELSE IF p.phaseMode = "tri" THEN
        [p EXCEPT !.geoAlpha = 0, !.triContentAlpha = 255]
    ELSE IF p.phaseMode = "geo" THEN
        [p EXCEPT !.geoAlpha = 255, !.triContentAlpha = 0]
    ELSE IF cycle < Sec10(WIN_A) THEN
        [p EXCEPT !.geoAlpha = floorMap(cycle, Sec10(WIN_A), 255, 0),
                  !.triContentAlpha = 0]
    ELSE IF cycle < Sec10(WIN_B) THEN
        [p EXCEPT !.geoAlpha = 0, !.triContentAlpha = 255]
    ELSE IF cycle < Sec10(WIN_C) THEN
        [p EXCEPT !.geoAlpha = 0,
                  !.triContentAlpha =
                      floorMap(cycle - Sec10(WIN_B), Sec10(WIN_C - WIN_B), 255, 0)]
    ELSE IF cycle < Sec10(WIN_D) THEN
        [p EXCEPT !.triContentAlpha = 0,
                  !.geoAlpha =
                      floorMap(cycle - Sec10(WIN_C), Sec10(WIN_D - WIN_C), 0, 255)]
    ELSE
        [p EXCEPT !.geoAlpha = 255, !.triContentAlpha = 0]

drawPhases(p) ==
    LET cycle == p.fadeTimer % Sec10(CYCLE_LEN) IN
    IF ~p.manualPhaseEnabled /\ p.phaseMode = "auto" THEN
        IF cycle < Sec10(WIN_A) THEN
            [p EXCEPT !.geoAlpha = floorMap(cycle, Sec10(WIN_A), 255, 0),
                      !.triContentAlpha = 0]
        ELSE IF cycle < Sec10(WIN_B) THEN
            [p EXCEPT !.geoAlpha = 0, !.triContentAlpha = 255]
        ELSE IF cycle < Sec10(WIN_C) THEN
            [p EXCEPT !.geoAlpha = 0,
                      !.triContentAlpha =
                          floorMap(cycle - Sec10(WIN_B), Sec10(WIN_C - WIN_B), 255, 0)]
        ELSE IF cycle < Sec10(WIN_D) THEN
            [p EXCEPT !.triContentAlpha = 0,
                      !.geoAlpha =
                          floorMap(cycle - Sec10(WIN_C), Sec10(WIN_D - WIN_C), 0, 255)]
        ELSE
            [p EXCEPT !.geoAlpha = 255, !.triContentAlpha = 0]
    ELSE
        IF p.phaseMode = "tri" THEN
            [p EXCEPT !.geoAlpha = 0, !.triContentAlpha = 255]
        ELSE IF p.phaseMode = "geo" THEN
            [p EXCEPT !.geoAlpha = 255, !.triContentAlpha = 0]
        ELSE
            [p EXCEPT !.manualPhaseEnabled = FALSE, !.phaseMode = "auto"]

\* ---- draw(): RESPONSIVE SCALE ---------------------------------------
CONTENT_H == CONTENT_MAX_Y - CONTENT_MIN_Y

responsiveScaleUncentred(w, h) ==
    LET s == fpMin(fpDiv(w, DESIGN_W), fpDiv(h, CONTENT_H))
    IN  [sc |-> s,
         offX |-> fpSub(fpInt(w), fpMul(DESIGN_W, s)),
         offY |-> fpSub(fpInt(h), fpMul(CONTENT_H, s))]

responsiveScaleMax(w, h) ==
    LET s == IF magCompare(fpDiv(w, DESIGN_W).mag, fpDiv(h, CONTENT_H).mag) < 0
             THEN fpDiv(h, CONTENT_H) ELSE fpDiv(w, DESIGN_W)
    IN  [sc |-> s,
         offX |-> fpHalf(fpSub(fpInt(w), fpMul(DESIGN_W, s))),
         offY |-> fpHalf(fpSub(fpInt(h), fpMul(CONTENT_H, s)))]

\* sc, offX and offY of a frame on a canvas of w x h pixels
responsiveScale(w, h) ==
    LET s == fpMin(fpDiv(w, DESIGN_W), fpDiv(h, CONTENT_H))
    IN  [sc |-> s,
         offX |-> fpHalf(fpSub(fpInt(w), fpMul(DESIGN_W, s))),
         offY |-> fpHalf(fpSub(fpInt(h), fpMul(CONTENT_H, s)))]

\* responsiveScale on the canvas sizes of the model, computed once
ScaleTable == [v \in Viewports |-> responsiveScale(v[1], v[2])] @@ <<>>

\* drawHelpBox(), drawInfoBoxLeft(): the screen position of the logical
\* point (x, y), from the transform cached by the last frame
screenX(x) == fpAdd(gOffX, fpMul(x, gSc))
screenY(y) == fpAdd(gOffY, fpMul(y - CONTENT_MIN_Y, gSc))

\* draw(): one frame, deltaTime = dt after the previous one
draw(dt) ==
    LET t == now + dt
        p == drawPhases(drawTimers(PhaseState, dt))
    IN  /\ now' = t
        /\ drawRoulette(t)
        /\ fadeTimer' = p.fadeTimer
        /\ geoAlpha' = p.geoAlpha
        /\ triContentAlpha' = p.triContentAlpha
        /\ phaseMode' = p.phaseMode
        /\ manualPhaseEnabled' = p.manualPhaseEnabled
        /\ ref' = [drawPhases(drawTimers(ref, dt)) EXCEPT
                       !.lockDrawn = @ \/ manualPhaseEnabled]
        /\ sc' = ScaleTable[<<width, height>>].sc
        /\ gOffX' = ScaleTable[<<width, height>>].offX
        /\ gOffY' = ScaleTable[<<width, height>>].offY
        /\ gSc' = sc'
        /\ last' = "draw"
        /\ UNCHANGED <<typingVars, width, height, parseVars, submitAt>>

\* ---- draw(): TIME SOURCE (live vs manual) ---------------------------
\* hNow, mNow, sNow of a frame that reads clock = <<hour(), minute(), second()>>
timeSourceLive(clock) == clock

timeSource(clock) ==
    IF useLiveTime THEN clock ELSE <<manualH, manualM, manualS>>

secondsValueRunsInManual(clock, t) == t % Ms(60000)

\* S of the frame that reads millis() = t, in 1/1000 ms: the running
\* (millis() / 1000) % 60 in LIVE, the whole second sNow in MANUAL
secondsValue(clock, t) ==
    IF useLiveTime THEN t % Ms(60000) ELSE Ms(1000) * timeSource(clock)[3]

\* ---- draw(): the three markers ---------------------------------------
\* The markers are computed in fixed point: angles in 1/10000 rad, the
\* oscillators in 1/10000, lengths and coordinates in 1/10 px, every quotient
\* rounded down.
UNIT == 10000
PI == 31416
HALF_PI == PI \div 2
TWO_PI == 2 * PI

\* sin(x) for -HALF_PI <= x <= HALF_PI, by its series up to x^7
sinSeries(x) ==
    LET x2 == (x * x) \div UNIT
        t3 == ((x * x2) \div UNIT) \div 6
        t5 == ((t3 * x2) \div UNIT) \div 20
        t7 == ((t5 * x2) \div UNIT) \div 42
    IN  x - t3 + t5 - t7

\* sin(a) and cos(a) for any angle a
sin(a) ==
    LET r == a % TWO_PI
    IN  IF r <= HALF_PI THEN sinSeries(r)
        ELSE IF r <= PI + HALF_PI THEN sinSeries(PI - r)
        ELSE sinSeries(r - TWO_PI)
cos(a) == sin(a + HALF_PI)

\* Layout constants (px)
cxSec == 620
cySec == 420
secW == 260
secH == 520
lineX == 735
lineTop == 140
lineBot == 740
sizeBase == 180

\* the corners pts[0..3] of the hour shape at millis() = t (1/1000 ms),
\* as pts[1..4]
hourShape(t) ==
    LET ms == t \div 1000
        triF == (sin(5 * ms) + UNIT) \div 2
        kiteF == (sin(8 * ms + PI \div 3) + UNIT) \div 2
        rectF == (sin(6 * ms + PI \div 5) + UNIT) \div 2
        b == 10 * sizeBase
        wide(v) == (v * (10 * UNIT + 3 * rectF)) \div (10 * UNIT)
        high(v) == (v * (10 * UNIT + 2 * rectF)) \div (10 * UNIT)
        p0 == <<wide(-b) - kiteF \div 20, -b>>
        p1 == <<b, high(-b) - (3 * kiteF) \div 100>>
        p2 == <<wide(b) + kiteF \div 20, b>>
        p3 == <<-b, high(b) + (3 * kiteF) \div 100>>
        midTop == <<p0[1] + (p1[1] - p0[1]) \div 2, p0[2] + (p1[2] - p0[2]) \div 2>>
        amt == 9 * triF
        toMid(p) == <<p[1] + ((midTop[1] - p[1]) * amt) \div (10 * UNIT),
                      p[2] + ((midTop[2] - p[2]) * amt) \div (10 * UNIT)>>
    IN  <<toMid(p0), toMid(p1), p2, p3>>

\* the integer square root of n, between lo and hi
RECURSIVE sqrtIn(_, _, _)
sqrtIn(n, lo, hi) ==
    IF lo >= hi THEN lo
    ELSE LET mid == (lo + hi + 1) \div 2
         IN  IF mid * mid <= n THEN sqrtIn(n, mid, hi) ELSE sqrtIn(n, lo, mid - 1)

dist(a, b) ==
    sqrtIn((a[1] - b[1]) * (a[1] - b[1]) + (a[2] - b[2]) * (a[2] - b[2]), 0, 32768)

\* the walk along the edges from pts[i] on: the point at arclength aH, lenSoFar
\* being the length of the edges before pts[i]
RECURSIVE hourWalk(_, _, _, _)
hourWalk(pts, aH, i, lenSoFar) ==
    IF i > 4 THEN <<0, 0>>
    ELSE LET a == pts[i]
             b == pts[(i % 4) + 1]
             d == dist(a, b)
         IN  IF aH <= lenSoFar + d
             THEN <<a[1] + ((b[1] - a[1]) * (aH - lenSoFar)) \div d,
                    a[2] + ((b[2] - a[2]) * (aH - lenSoFar)) \div d>>
             ELSE hourWalk(pts, aH, i + 1, lenSoFar + d)

\* hourMarker of the frame that reads clock and millis() = t: the point of the
\* hour shape's outline at H12 / 12 of its perimeter (H12 to the whole second)
hourMarker(clock, t) ==
    LET pts == hourShape(t)
        perim == dist(pts[1], pts[2]) + dist(pts[2], pts[3])
                     + dist(pts[3], pts[4]) + dist(pts[4], pts[1])
        hms == timeSource(clock)
        H12 == (hms[1] % 12) * 3600 + hms[2] * 60 + secondsValue(clock, t) \div Ms(1000)
    IN  hourWalk(pts, (perim * H12) \div 43200, 1, 0)

\* secondMarker: the point of the seconds ellipse at the angle of S
secondMarker(clock, t) ==
    LET aS == ((secondsValue(clock, t) \div 1000) * HALF_PI) \div 15000 - HALF_PI
    IN  <<10 * cxSec + (cos(aS) * 5 * secW) \div UNIT,
          10 * cySec + (sin(aS) * 5 * secH) \div UNIT>>

\* minuteMarker: the point of the minutes line at M = mNow + S / 60
minuteMarker(clock, t) ==
    <<10 * lineX,
      10 * lineTop + timeSource(clock)[2] * ((lineBot - lineTop) \div 6)
          + ((secondsValue(clock, t) \div 1000) * ((lineBot - lineTop) \div 6)) \div 60000>>

\* what a frame puts out with the roulette OFF, when it reads clock,
\* millis() = t and deltaTime = dt
frameOutput(clock, t, dt) ==
    LET p == drawPhases(drawTimers(PhaseState, dt))
        tr == ScaleTable[<<width, height>>]
    IN  [millis |-> t,
         deltaTime |-> dt,
         alphas |-> <<p.geoAlpha, p.triContentAlpha>>,
         time |-> timeSource(clock),
         S |-> secondsValue(clock, t),
         transform |-> <<tr.sc, tr.offX, tr.offY>>,
         hourMarker |-> hourMarker(clock, t),
         minuteMarker |-> minuteMarker(clock, t),
         secondMarker |-> secondMarker(clock, t)]

\* ---- draw(): hour numbers --------------------------------------------
\* one hour, in ms
HOUR == 3600000
abs(x) == IF x < 0 THEN -x ELSE x

\* H12 % 12 of the frame that reads clock and millis() = t, in ms (hours * HOUR):
\* H12 = (hNow % 12) + M / 60 with M = mNow + S / 60
hour12Float(clock, t) ==
    LET hms == timeSource(clock)
    IN  ((hms[1] % 12) * 3600 + hms[2] * 60) * 1000 + secondsValue(clock, t) \div 1000

\* the number drawn at the i-th twelfth of the perimeter
disp(i) == IF i = 0 THEN 12 ELSE i

\* is the i-th number drawn in the active style
isActive(clock, t, i) == abs(hour12Float(clock, t) - disp(i) * HOUR) < HOUR \div 2

\* the twelve numbers of a frame, the i-th at index i + 1
hourNumbers(clock, t) ==
    [k \in 1..12 |-> [disp |-> disp(k - 1), isActive |-> isActive(clock, t, k - 1)]]

\* no block of draw() has run: the frame's locals are not set, nothing is drawn
NoFrame ==
    [done |-> <<>>, dt |-> 0, clock |-> <<>>, hms |-> <<>>, S |-> -1, hourMarker |-> <<>>,
     secondMarker |-> <<>>, minuteMarker |-> <<>>, labels |-> <<>>,
     drawn |-> <<>>]

\* ------------------------------------------------------------------
\* The sketch after construction, and its behaviours
\* ------------------------------------------------------------------
Init ==
    /\ now = 0
    /\ fadeTimer = 0 /\ geoAlpha = 255 /\ triContentAlpha = 0
    /\ useLiveTime = TRUE /\ manualH = 12 /\ manualM = 0 /\ manualS = 0
    /\ typingMode = FALSE /\ timeInput = <<>> /\ inputHintTimer = 0
    /\ rouletteState = "off" /\ rouletteNextAt = 0
    /\ rouletteInterval = Ms(90)
    /\ phaseMode = "auto" /\ manualPhaseEnabled = FALSE
    /\ width = Canvas0[1] /\ height = Canvas0[2]
    /\ sc = fpInt(1) /\ gOffX = fpInt(0) /\ gOffY = fpInt(0) /\ gSc = fpInt(1)
    /\ parseIn = <<>> /\ parseOut = null
    /\ submitAt = -1 /\ runs = <<>> /\ frame = NoFrame
    /\ last = "setup"
    /\ ref = [fadeTimer |-> 0, geoAlpha |-> 255, triContentAlpha |-> 0,
              phaseMode |-> "auto", manualPhaseEnabled |-> FALSE,
              lockDrawn |-> FALSE]

\* a key event; the environment stops typing at MaxTyped characters
KeyIn(K) ==
    \E key \in K :
        /\ (typingMode /\ key \in TypedChars) => Len(timeInput) < MaxTyped
        /\ keyPressed(key)
        /\ UNCHANGED submitAt

\* a frame, while the clock stays within max (ms)
FrameIn(D, max) ==
    \E dt \in D :
        /\ now + Ms(dt) <= Ms(max)
        /\ draw(Ms(dt))
        /\ UNCHANGED <<runs, frame>>

Key == KeyIn(Keys)
Frame == FrameIn(Deltas, MaxNow)

Next == Key \/ Frame

Spec == Init /\ [][Next]_vars

\* ---- the roulette over a long horizon ------------------------------
KeyRoulette == KeyIn(RouletteKeys)
FrameRoulette == FrameIn(Deltas, MaxNowRoulette)

NextRoulette == KeyRoulette \/ FrameRoulette

SpecRoulette == Init /\ [][NextRoulette]_vars

\* ---- frames keep being drawn, keys stop at KeyDeadline ---------------
\* p5 calls draw() on every animation frame: a frame that can be drawn is drawn
KeyBrake == now < Ms(KeyDeadline) /\ KeyIn(RouletteKeys)
FrameBrake == FrameIn(Deltas, MaxNowBrake)

NextBrake == KeyBrake \/ FrameBrake

SpecBrake == Init /\ [][NextBrake]_vars /\ WF_vars(FrameBrake)

\* ---- the phase scheduler from every cycle position -----------------
\* the sketch as constructed, with both clocks at f
InitPhase ==
    \E f \in 0..MaxFade :
        /\ now = Ms(f)
        /\ fadeTimer = Ms(f) /\ geoAlpha = 255 /\ triContentAlpha = 0
        /\ useLiveTime = TRUE /\ manualH = 12 /\ manualM = 0 /\ manualS = 0
        /\ typingMode = FALSE /\ timeInput = <<>> /\ inputHintTimer = 0
        /\ rouletteState = "off" /\ rouletteNextAt = 0
        /\ rouletteInterval = Ms(90)
        /\ phaseMode = "auto" /\ manualPhaseEnabled = FALSE
        /\ width = Canvas0[1] /\ height = Canvas0[2]
        /\ sc = fpInt(1) /\ gOffX = fpInt(0) /\ gOffY = fpInt(0) /\ gSc = fpInt(1)
        /\ parseIn = <<>> /\ parseOut = null
        /\ submitAt = -1 /\ runs = <<>> /\ frame = NoFrame
        /\ last = "setup"
        /\ ref = [fadeTimer |-> Ms(f), geoAlpha |-> 255, triContentAlpha |-> 0,
                  phaseMode |-> "auto", manualPhaseEnabled |-> FALSE,
                  lockDrawn |-> FALSE]

KeyPhase == KeyIn(PhaseKeys)
FramePhase == FrameIn(PhaseDeltas, MaxFade)

NextPhase == KeyPhase \/ FramePhase

SpecPhase == InitPhase /\ [][NextPhase]_vars

\* ---- setManualTime() on every argument ----------------------------
\* arguments offered to setManualTime(): every value of each field's range,
\* its neighbours outside, and numbers around 2^31 and 2^32 on both sides
SmallArgs(a, b) == {Number(i) : i \in (a - 2)..(b + 2)}
BigArgs == {[hi |-> 0, lo |-> INT32_MAX], [hi |-> 1, lo |-> 0], [hi |-> 1, lo |-> 7],
            [hi |-> 2, lo |-> 5], [hi |-> 3, lo |-> INT32_MAX],
            [hi |-> -1, lo |-> 0], [hi |-> -2, lo |-> INT32_MAX],
            [hi |-> -2, lo |-> 9], [hi |-> -3, lo |-> 0]}
TimeArgs ==
    {<<h, Number(0), Number(30)>> : h \in SmallArgs(0, 23) \cup BigArgs}
    \cup {<<Number(7), m, Number(0)>> : m \in SmallArgs(0, 59) \cup BigArgs}
    \cup {<<Number(23), Number(59), s>> : s \in SmallArgs(0, 59) \cup BigArgs}
    \cup {<<v, v, v>> : v \in BigArgs}

\* one call setManualTime(a[1], a[2], a[3]) outside a frame
SetTimeCall(a) ==
    /\ setManualTime(a[1], a[2], a[3])
    /\ last' = "set"
    /\ UNCHANGED <<now, typingVars, rouletteVars, phaseVars, viewVars, parseVars,
                   submitAt, runs, frame, ref>>

SetTime == \E a \in TimeArgs : SetTimeCall(a)
KeyTime == KeyIn({"r"})
FrameTime == FrameIn({1000}, MaxNowTime)

NextTime == SetTime \/ KeyTime \/ FrameTime

SpecTime == Init /\ [][NextTime]_vars

\* ---- the canvas is resized between frames ---------------------------
InitView ==
    \E v \in Viewports :
        /\ now = 0
        /\ fadeTimer = 0 /\ geoAlpha = 255 /\ triContentAlpha = 0
        /\ useLiveTime = TRUE /\ manualH = 12 /\ manualM = 0 /\ manualS = 0
        /\ typingMode = FALSE /\ timeInput = <<>> /\ inputHintTimer = 0
        /\ rouletteState = "off" /\ rouletteNextAt = 0
        /\ rouletteInterval = Ms(90)
        /\ phaseMode = "auto" /\ manualPhaseEnabled = FALSE
        /\ width = v[1] /\ height = v[2]
        /\ sc = fpInt(1) /\ gOffX = fpInt(0) /\ gOffY = fpInt(0) /\ gSc = fpInt(1)
        /\ parseIn = <<>> /\ parseOut = null
        /\ submitAt = -1 /\ runs = <<>> /\ frame = NoFrame
        /\ last = "setup"
        /\ ref = [fadeTimer |-> 0, geoAlpha |-> 255, triContentAlpha |-> 0,
                  phaseMode |-> "auto", manualPhaseEnabled |-> FALSE,
                  lockDrawn |-> FALSE]

\* windowResized(): resizeCanvas(windowWidth, windowHeight)
windowResized(w, h) ==
    /\ width' = w /\ height' = h
    /\ last' = "resize"
    /\ UNCHANGED <<now, timeVars, typingVars, rouletteVars, phaseVars, sc, gOffX,
                   gOffY, gSc, parseVars, submitAt, runs, frame, ref>>

Resize == \E v \in Viewports : windowResized(v[1], v[2])
FrameView == FrameIn({1000}, MaxNowView)

NextView == Resize \/ FrameView

SpecView == InitView /\ [][NextView]_vars

\* ---- one frame, run twice ---------------------------------------------
\* what hour(), minute(), second() read in a frame
Clocks == {<<0, 0, 0>>, <<10, 20, 30>>, <<23, 59, 59>>}
FrameKeys == {"r", "2"}
FrameClocks == {<<10, 20, 30>>, <<23, 59, 59>>}
FrameTimes == {<<12, 0, 0>>, <<3, 15, 40>>}
\* what millis() reads in the second run (ms)
Millis == {250, 1000, 7000}

KeyFrame == KeyIn(FrameKeys)
SetFrame == \E a \in FrameTimes : SetTimeCall(<<Number(a[1]), Number(a[2]), Number(a[3])>>)

\* a frame is drawn; runs' holds what it puts out and what a second run from
\* the same state puts out that reads the same wall clock but its own
\* millis() and deltaTime
FrameTwice ==
    \E dt \in Deltas, dt2 \in Deltas, clock \in FrameClocks, t2 \in Millis :
        /\ now + Ms(dt) <= Ms(MaxNowFrame)
        /\ draw(Ms(dt))
        /\ runs' = <<frameOutput(clock, now + Ms(dt), Ms(dt)),
                     frameOutput(clock, Ms(t2), Ms(dt2))>>
        /\ UNCHANGED frame

NextFrame == KeyFrame \/ SetFrame \/ FrameTwice

SpecFrame == Init /\ [][NextFrame]_vars

\* ---- typing, submitting and the format hint ------------------------
HintKeys == {"t", "Enter", "Backspace", "Escape"} \cup TypedChars
HintDeltas == {300, 600}

\* drawHelpBox(), called by draw(): is the line "format: HH:MM or HH:MM:SS" pushed
hintShown ==
    /\ typingMode
    /\ Len(timeInput) > 0
    /\ ~parseTimeString(timeInput).ok
    /\ now - inputHintTimer < Ms(900)

\* a key event, remembering the Enter that rejected the buffer
KeyHint ==
    \E key \in HintKeys :
        /\ (typingMode /\ key \in TypedChars) => Len(timeInput) < MaxTyped
        /\ keyPressed(key)
        /\ submitAt' =
               IF typingMode /\ typingMode' /\ timeInput' = timeInput
               THEN IF keyCode(key) = ENTER \/ keyCode(key) = RETURN
                    THEN now ELSE submitAt
               ELSE -1
FrameHint == FrameIn(HintDeltas, MaxNow)

NextHint == KeyHint \/ FrameHint

SpecHint == Init /\ [][NextHint]_vars

\* ---- parseTimeString() on the strings a buffer can hold --------------
\* digit strings offered as the parts of a string
Parts == {<<>>, <<"0">>, <<"0", "0">>, <<"5">>, <<"0", "5">>, <<"9">>, <<"0", "9">>,
          <<"2", "3">>, <<"2", "4">>, <<"2", "5">>, <<"3", "0">>, <<"5", "9">>,
          <<"6", "0">>, <<"1", "0", "0">>}

\* the strings of at most n characters made of parts joined by colons
RECURSIVE StringsUpTo(_)
StringsUpTo(n) ==
    {p \in Parts : Len(p) <= n}
    \cup UNION {{p \o <<":">> \o r : r \in StringsUpTo(n - Len(p) - 1)} :
                   p \in {q \in Parts : Len(q) + 1 <= n}}

Strings == StringsUpTo(INPUT_MAX)

InitParse ==
    /\ now = 0
    /\ fadeTimer = 0 /\ geoAlpha = 255 /\ triContentAlpha = 0
    /\ useLiveTime = TRUE /\ manualH = 12 /\ manualM = 0 /\ manualS = 0
    /\ typingMode = FALSE /\ timeInput = <<>> /\ inputHintTimer = 0
    /\ rouletteState = "off" /\ rouletteNextAt = 0
    /\ rouletteInterval = Ms(90)
    /\ phaseMode = "auto" /\ manualPhaseEnabled = FALSE
    /\ width = Canvas0[1] /\ height = Canvas0[2]
    /\ sc = fpInt(1) /\ gOffX = fpInt(0) /\ gOffY = fpInt(0) /\ gSc = fpInt(1)
    /\ parseIn \in Strings /\ parseOut = null
    /\ submitAt = -1 /\ runs = <<>> /\ frame = NoFrame
    /\ last = "setup"
    /\ ref = [fadeTimer |-> 0, geoAlpha |-> 255, triContentAlpha |-> 0,
              phaseMode |-> "auto", manualPhaseEnabled |-> FALSE,
              lockDrawn |-> FALSE]

\* one call of parseTimeString(parseIn)
Parse ==
    /\ last = "setup"
    /\ parseOut' = parseTimeString(parseIn)
    /\ last' = "parse"
    /\ UNCHANGED <<now, timeVars, typingVars, rouletteVars, phaseVars, viewVars,
                   parseIn, submitAt, runs, frame, ref>>

NextParse == Parse

SpecParse == InitParse /\ [][NextParse]_vars

\* ---- every kind of key, and a brake that is left to run out ------------
MaxNowManual == 10000
ManualKeyDeadline == 1000
ManualKeys == {"z", "r", "t", "Escape", "Enter", "2", "5", ":"}
ManualDeltas == {500}

\* keys come early, and again once a brake has stopped by itself
KeyManual ==
    /\ now < Ms(ManualKeyDeadline) \/ rouletteInterval >= Ms(ROULETTE_SLOW_STOP)
    /\ KeyIn(ManualKeys)
FrameManual == FrameIn(ManualDeltas, MaxNowManual)

NextManual == KeyManual \/ FrameManual

SpecManual == Init /\ [][NextManual]_vars

\* ---- typing without a limit on the number of key strokes ----------------
MaxNowTyping == 500
TypingKeys == {"t", "5", ":", "Escape", "Enter", "Backspace", "r", "z"}
TypingDeltas == {500}

KeyTypingIn ==
    \E key \in TypingKeys :
        /\ keyPressed(key)
        /\ UNCHANGED submitAt
FrameTyping == FrameIn(TypingDeltas, MaxNowTyping)

NextTyping == KeyTypingIn \/ FrameTyping

SpecTyping == Init /\ [][NextTyping]_vars

\* ---- the hour numbers of a frame, at many times of day ------------------
MaxNowLabels == 500
LabelHours == {0, 1, 5, 11, 12, 13, 23}
LabelMinutes == {0, 29, 30, 31, 59}
LabelSeconds == {0, 59}
LabelClocks == {<<0, 29, 59>>, <<12, 0, 0>>, <<18, 30, 0>>}
LabelDeltas == {250}

SetLabels ==
    \E h \in LabelHours, m \in LabelMinutes, s \in LabelSeconds :
        SetTimeCall(<<Number(h), Number(m), Number(s)>>)
KeyLabels == KeyIn({"r"})

\* a frame is drawn; frame' holds the time value it resolves and its numbers
FrameLabels ==
    \E dt \in LabelDeltas, clock \in LabelClocks :
        /\ now + Ms(dt) <= Ms(MaxNowLabels)
        /\ draw(Ms(dt))
        /\ frame' = [NoFrame EXCEPT !.dt = Ms(dt), !.clock = clock,
                                    !.hms = timeSource(clock)',
                                    !.S = secondsValue(clock, now)',
                                    !.labels = hourNumbers(clock, now)']
        /\ UNCHANGED runs

NextLabels == SetLabels \/ KeyLabels \/ FrameLabels

SpecLabels == Init /\ [][NextLabels]_vars

\* ---- draw() block by block --------------------------------------------
MaxNowPipe == 2000
PipeKeys == {"z", "r", "2"}
\* deltaTime (ms); 0 is a frame drawn in the millisecond of the last event
PipeDeltas == {0, 500}

\* the blocks of draw(), in the order of the source text
BlocksGridBeforePhases ==
    <<"background", "timers", "roulette", "grid", "phases", "scale",
      "timeSource", "hourShape", "secondsOval", "minutes", "triangle", "ui">>

Blocks ==
    <<"background", "timers", "roulette", "phases", "scale", "grid",
      "timeSource", "hourShape", "secondsOval", "minutes", "triangle", "ui">>

\* the values a drawing block reads, f being the frame's local values
Used(f, b) ==
    CASE b = "background" -> <<>>
      [] b = "grid" -> <<triContentAlpha, sc>>
      [] b = "hourShape" -> <<geoAlpha, f.hms, f.S, f.hourMarker>>
      [] b = "secondsOval" -> <<f.S, f.secondMarker>>
      [] b = "minutes" -> <<f.hms, f.S, f.minuteMarker>>
      [] b = "triangle" -> <<f.hourMarker, f.secondMarker, f.minuteMarker>>
      [] b = "ui" -> <<hintShown, gOffX, gOffY, gSc>>

\* a drawing block puts its element on the canvas
render(f, b) == [f EXCEPT !.drawn = Append(@, [name |-> b, used |-> Used(f, b)])]

\* one block of draw(); dt = deltaTime, clock = <<hour(), minute(), second()>>
drawBlock(b, dt, clock) ==
    LET f == IF b = "background" THEN NoFrame ELSE frame
        g == [f EXCEPT !.done = Append(@, b)]
    IN
    CASE b = "background" ->
            /\ frame' = [g EXCEPT !.drawn = <<[name |-> b, used |-> <<>>]>>]
            /\ UNCHANGED <<now, timeVars, rouletteVars, phaseVars, sc, gOffX, gOffY,
                           gSc, ref>>
      [] b = "timers" ->
            /\ now' = now + dt
            /\ fadeTimer' = drawTimers(PhaseState, dt).fadeTimer
            /\ ref' = drawTimers(ref, dt)
            /\ frame' = [g EXCEPT !.dt = dt]
            /\ UNCHANGED <<timeVars, rouletteVars, geoAlpha, triContentAlpha,
                           phaseMode, manualPhaseEnabled, sc, gOffX, gOffY, gSc>>
      [] b = "roulette" ->
            /\ drawRoulette(now)
            /\ frame' = g
            /\ UNCHANGED <<now, phaseVars, sc, gOffX, gOffY, gSc, ref>>
      [] b = "phases" ->
            LET p == drawPhases(PhaseState) IN
            /\ geoAlpha' = p.geoAlpha
            /\ triContentAlpha' = p.triContentAlpha
            /\ phaseMode' = p.phaseMode
            /\ manualPhaseEnabled' = p.manualPhaseEnabled
            /\ ref' = [drawPhases(ref) EXCEPT !.lockDrawn = @ \/ manualPhaseEnabled]
            /\ frame' = g
            /\ UNCHANGED <<now, timeVars, rouletteVars, fadeTimer, sc, gOffX, gOffY,
                           gSc>>
      [] b = "scale" ->
            /\ sc' = ScaleTable[<<width, height>>].sc
            /\ gOffX' = ScaleTable[<<width, height>>].offX
            /\ gOffY' = ScaleTable[<<width, height>>].offY
            /\ gSc' = sc'
            /\ frame' = g
            /\ UNCHANGED <<now, timeVars, rouletteVars, phaseVars, ref>>
      [] b = "timeSource" ->
            /\ frame' = [g EXCEPT !.clock = clock, !.hms = timeSource(clock),
                                  !.S = secondsValue(clock, now)]
            /\ UNCHANGED <<now, timeVars, rouletteVars, phaseVars, sc, gOffX, gOffY,
                           gSc, ref>>
      [] b = "hourShape" ->
            /\ frame' = render([g EXCEPT !.hourMarker = hourMarker(frame.clock, now),
                                         !.labels = hourNumbers(frame.clock, now)], b)
            /\ UNCHANGED <<now, timeVars, rouletteVars, phaseVars, sc, gOffX, gOffY,
                           gSc, ref>>
      [] b = "secondsOval" ->
            /\ frame' = render([g EXCEPT !.secondMarker =
                                    secondMarker(frame.clock, now)], b)
            /\ UNCHANGED <<now, timeVars, rouletteVars, phaseVars, sc, gOffX, gOffY,
                           gSc, ref>>
      [] b = "minutes" ->
            /\ frame' = render([g EXCEPT !.minuteMarker =
                                    minuteMarker(frame.clock, now)], b)
            /\ UNCHANGED <<now, timeVars, rouletteVars, phaseVars, sc, gOffX, gOffY,
                           gSc, ref>>
      [] b \in {"grid", "triangle", "ui"} ->
            /\ frame' = render(g, b)
            /\ UNCHANGED <<now, timeVars, rouletteVars, phaseVars, sc, gOffX, gOffY,
                           gSc, ref>>

\* draw() is between two frames: no block has run, or all have
betweenFrames == Len(frame.done) \in {0, Len(Blocks)}

\* the key handlers run to completion between two frames
KeyPipe ==
    /\ betweenFrames
    /\ KeyIn(PipeKeys)

\* the next block of draw() runs
BlockPipe ==
    \E dt \in PipeDeltas, clock \in FrameClocks :
        LET b == Blocks[(Len(frame.done) % Len(Blocks)) + 1] IN
        /\ b = "timers" => now + Ms(dt) <= Ms(MaxNowPipe)
        /\ drawBlock(b, Ms(dt), clock)
        /\ last' = "draw"
        /\ UNCHANGED <<typingVars, width, height, parseVars, runs, submitAt>>

NextPipe == KeyPipe \/ BlockPipe

SpecPipeline == Init /\ [][NextPipe]_vars

\* ==================================================================
\* Properties
\* ==================================================================
Active == rouletteState \in {"spin", "brake"}
ToggleStep == keyPressed("z") \/ keyPressed("Z")
ResetStep == keyPressed("r") \/ keyPressed("R")
\* every global of the sketch (all variables but the bookkeeping last and ref)
sketchVars == <<now, timeVars, typingVars, rouletteVars, phaseVars>>

\* C1: the roulette toggle (Z) goes OFF -> SPIN with the interval reset to
\* ROULETTE_FAST and the first tick scheduled at the current time, SPIN -> BRAKE
\* with the next tick at now + interval and the interval kept, BRAKE -> OFF;
\* it never goes OFF -> BRAKE or BRAKE -> SPIN.
C1_ToggleTransitions ==
    [][ToggleStep =>
          /\ rouletteState = "off" =>
                /\ rouletteState' = "spin"
                /\ rouletteInterval' = Ms(ROULETTE_FAST)
                /\ rouletteNextAt' = now
          /\ rouletteState = "spin" =>
                /\ rouletteState' = "brake"
                /\ rouletteNextAt' = now + rouletteInterval
                /\ rouletteInterval' = rouletteInterval
          /\ rouletteState = "brake" => rouletteState' = "off"
          /\ ~(rouletteState = "off" /\ rouletteState' = "brake")
          /\ ~(rouletteState = "brake" /\ rouletteState' = "spin")]_vars

\* three toggles pressed at one clock value have gone SPIN, BRAKE, OFF: the brake's
\* schedule now + ROULETTE_FAST is still in rouletteNextAt
C1_Witness ==
    /\ last = "key" /\ rouletteState = "off" /\ ~useLiveTime /\ ~typingMode
    /\ now > 0 /\ rouletteNextAt = now + Ms(ROULETTE_FAST)
    /\ inputHintTimer = 0

\* C2: once in BRAKE, with frames drawn and no further key, every tick strictly
\* increases the interval (by the factor 1.18) and the roulette reaches OFF.
C2_BrakeEnds ==
    /\ [][(rouletteState = "brake" /\ last' = "draw" /\ now' >= rouletteNextAt) =>
            /\ rouletteInterval' > rouletteInterval
            /\ rouletteInterval' * BRAKE_MULT_DEN <= rouletteInterval * BRAKE_MULT_NUM
            /\ (rouletteInterval' + 1) * BRAKE_MULT_DEN > rouletteInterval * BRAKE_MULT_NUM
            /\ rouletteState' = "off" <=> rouletteInterval' >= Ms(ROULETTE_SLOW_STOP)]_vars
    /\ ((rouletteState = "brake" /\ now >= Ms(KeyDeadline)) ~> rouletteState = "off")

\* a brake tick has passed the stop threshold and switched the roulette off
C2_Witness ==
    /\ last = "draw" /\ rouletteState = "off"
    /\ rouletteInterval >= Ms(ROULETTE_SLOW_STOP)
    /\ now >= Ms(KeyDeadline)

\* C3: in SPIN the interval is ROULETTE_FAST; in BRAKE it is in
\* [ROULETTE_FAST, ROULETTE_SLOW_STOP) and never decreases during the episode;
\* while OFF only the toggle that starts a spin changes it.
C3_Interval ==
    /\ [](rouletteState = "spin" => rouletteInterval = Ms(ROULETTE_FAST))
    /\ [](rouletteState = "brake" =>
            /\ Ms(ROULETTE_FAST) <= rouletteInterval
            /\ rouletteInterval < Ms(ROULETTE_SLOW_STOP))
    /\ [][(rouletteState = "brake" /\ rouletteState' = "brake") =>
            rouletteInterval' >= rouletteInterval]_vars
    /\ [][(rouletteState = "off" /\ rouletteInterval' # rouletteInterval) =>
            ToggleStep /\ rouletteState' = "spin"]_vars

\* a brake one tick before the automatic stop, in a second episode: the first
\* episode's ticks alone take more than 6 s
C3_Witness ==
    /\ rouletteState = "brake" /\ last = "draw"
    /\ rouletteInterval * BRAKE_MULT_NUM >= Ms(ROULETTE_SLOW_STOP) * BRAKE_MULT_DEN

\* C4: whenever the roulette is SPIN or BRAKE the time mode is MANUAL; the
\* OFF -> SPIN toggle sets MANUAL, leaves typing mode and clears the buffer, and a
\* step back to LIVE leaves the roulette OFF.
C4_RouletteIsManual ==
    /\ [](Active => ~useLiveTime)
    /\ [][(ToggleStep /\ rouletteState = "off") =>
            ~useLiveTime' /\ ~typingMode' /\ timeInput' = <<>>]_vars
    /\ [][(~useLiveTime /\ useLiveTime') => rouletteState' = "off"]_vars

\* the roulette started from LIVE and no tick has set a time yet
C4_Witness ==
    /\ last = "key" /\ rouletteState = "spin" /\ ~useLiveTime
    /\ manualH = 12 /\ rouletteNextAt = now /\ now > 0

\* C5: typing mode and an active roulette are never both on.
C5_TypingExcludesRoulette ==
    ~(typingMode /\ Active)

\* typing mode entered while a tick was still scheduled ahead
C5_Witness ==
    /\ last = "key" /\ typingMode /\ rouletteState = "off"
    /\ rouletteNextAt > now /\ inputHintTimer = now

\* C6: R leads to LIVE, roulette OFF, lock off with AUTO, typing off, buffer empty;
\* it keeps the manual time and fadeTimer; pressed in that state it changes nothing.
ResetState ==
    /\ useLiveTime /\ rouletteState = "off"
    /\ ~manualPhaseEnabled /\ phaseMode = "auto"
    /\ ~typingMode /\ timeInput = <<>>

C6_Reset ==
    [][ResetStep =>
          /\ ResetState'
          /\ UNCHANGED <<manualH, manualM, manualS, fadeTimer>>
          /\ ResetState => UNCHANGED sketchVars]_vars

\* LIVE again after a manual time had been set, with the cycle clock running
C6_Witness ==
    /\ last = "key" /\ ResetState /\ manualH # 12 /\ fadeTimer > 0
    /\ rouletteNextAt > now

\* C10: 1 gives lock on with GEO, 2 lock on with TRI, 3 lock off with AUTO, Space
\* turns an active lock off (AUTO) and an inactive lock on with GEO; the lock flag
\* is on exactly when phaseMode is GEO or TRI.
C10_LockMatchesMode ==
    /\ [](manualPhaseEnabled <=> phaseMode \in {"geo", "tri"})
    /\ [][keyPressed("1") => (manualPhaseEnabled' /\ phaseMode' = "geo")]_vars
    /\ [][keyPressed("2") => (manualPhaseEnabled' /\ phaseMode' = "tri")]_vars
    /\ [][keyPressed("3") => (~manualPhaseEnabled' /\ phaseMode' = "auto")]_vars
    /\ [][keyPressed(" ") =>
            IF manualPhaseEnabled
            THEN ~manualPhaseEnabled' /\ phaseMode' = "auto"
            ELSE manualPhaseEnabled' /\ phaseMode' = "geo"]_vars

\* a frame drawn under a TRI lock, then key 3 back to AUTO
C10_Witness ==
    /\ last = "key" /\ ~manualPhaseEnabled /\ phaseMode = "auto"
    /\ geoAlpha = 0 /\ triContentAlpha = 255
    /\ fadeTimer % Sec10(CYCLE_LEN) < Sec10(WIN_A)

\* C7: in AUTO, after a frame, with cycle = fadeTimer mod 23 s:
\*   [0, 1.5)     geoAlpha = floor(255 - 255 * cycle / 1.5), triAlpha = 0
\*   [1.5, 11.5)  geoAlpha = 0, triAlpha = 255
\*   [11.5, 13)   geoAlpha = 0, triAlpha = floor(255 - 255 * (cycle - 11.5) / 1.5)
\*   [13, 14.5)   triAlpha = 0, geoAlpha = floor(255 * (cycle - 13) / 1.5)
\*   [14.5, 23)   geoAlpha = 255, triAlpha = 0
\* and within one window each alpha is monotone and moves no more than the ramp's
\* slope allows.  n = floor(x / Ramp) is stated as n * Ramp <= x < (n + 1) * Ramp.
Ramp == Ms(1500)
IsFloor(n, x) == n * Ramp <= x /\ x < (n + 1) * Ramp
CycleOf(f) == f % Ms(23000)
WindowOf(c) ==
    IF c < Ms(1500) THEN 1 ELSE IF c < Ms(11500) THEN 2
    ELSE IF c < Ms(13000) THEN 3 ELSE IF c < Ms(14500) THEN 4 ELSE 5
AutoDrawn == last = "draw" /\ ~manualPhaseEnabled /\ phaseMode = "auto"
Abs(x) == IF x < 0 THEN -x ELSE x

C7_AlphasOfCycle ==
    LET c == CycleOf(fadeTimer) IN
    AutoDrawn =>
        /\ WindowOf(c) = 1 =>
              triContentAlpha = 0 /\ IsFloor(geoAlpha, 255 * Ramp - 255 * c)
        /\ WindowOf(c) = 2 => geoAlpha = 0 /\ triContentAlpha = 255
        /\ WindowOf(c) = 3 =>
              geoAlpha = 0
              /\ IsFloor(triContentAlpha, 255 * Ramp - 255 * (c - Ms(11500)))
        /\ WindowOf(c) = 4 =>
              triContentAlpha = 0 /\ IsFloor(geoAlpha, 255 * (c - Ms(13000)))
        /\ WindowOf(c) = 5 => geoAlpha = 255 /\ triContentAlpha = 0
        /\ c = Ms(1500) => geoAlpha = 0
        /\ c = Ms(6000) => geoAlpha = 0 /\ triContentAlpha = 255

C8_LockPinsAlphas ==
    (last = "draw" /\ manualPhaseEnabled) =>
        /\ phaseMode = "geo" => geoAlpha = 255 /\ triContentAlpha = 0
        /\ phaseMode = "tri" => geoAlpha = 0 /\ triContentAlpha = 255

\* a frame under a TRI lock on a ramp of the cycle, where AUTO shows neither (0, 255)
\* nor (255, 0)
C8_Witness ==
    /\ last = "draw" /\ manualPhaseEnabled /\ phaseMode = "tri"
    /\ geoAlpha = 0 /\ triContentAlpha = 255
    /\ CycleOf(fadeTimer) = Ms(13750)

\* C9: every frame advances fadeTimer by its delta, in every phase mode; no key
\* changes fadeTimer; on every frame in AUTO the alphas are those of the run with
\* the same frame deltas and no phase lock.
C9_CycleClockRuns ==
    /\ [][last' = "draw" => fadeTimer' - fadeTimer = now' - now]_vars
    /\ [][last' = "key" => fadeTimer' = fadeTimer]_vars
    /\ [](AutoDrawn =>
            /\ geoAlpha = ref.geoAlpha
            /\ triContentAlpha = ref.triContentAlpha)

\* AUTO resumed on the fade-out ramp after a frame was drawn under a lock
C9_Witness ==
    /\ AutoDrawn /\ ref.lockDrawn
    /\ geoAlpha = ref.geoAlpha /\ geoAlpha > 0 /\ geoAlpha < 255

\* ---- C11 ----------------------------------------------------------
\* the wall-clock readings a frame may see
InRange(a) ==
    /\ a[1].hi = 0 /\ a[1].lo <= 23
    /\ a[2].hi = 0 /\ a[2].lo <= 59
    /\ a[3].hi = 0 /\ a[3].lo <= 59

Nearest(v, a, b) ==
    IF v.hi < 0 THEN a
    ELSE IF v.hi > 0 THEN b
    ELSE Max(a, Min(b, v.lo))

\* C12: for every numeric (h, m, s), of any magnitude, setManualTime stores
\* in each field the value of its range nearest to the argument: 0 for a
\* negative one, 23 for an hour above 23, 59 for a minute or second above 59.
C12_ClampsToNearest ==
    [][\A a \in TimeArgs :
           SetTimeCall(a) =>
               /\ manualH' = Nearest(a[1], 0, 23)
               /\ manualM' = Nearest(a[2], 0, 59)
               /\ manualS' = Nearest(a[3], 0, 59)]_vars

\* ---- C13 ----------------------------------------------------------
ColonsAt(b) == {i \in 1..Len(b) : b[i] = ":"}

\* the number written by the digits b[i..j]
RECURSIVE Value(_, _, _)
Value(b, i, j) == IF i > j THEN 0 ELSE Value(b, i, j - 1) * 10 + DigitVal(b[j])

\* two or three parts, each a non-empty digit string
WellFormed(b) ==
    /\ Cardinality(ColonsAt(b)) \in {1, 2}
    /\ 1 \notin ColonsAt(b) /\ Len(b) \notin ColonsAt(b)
    /\ \A i \in ColonsAt(b) : i + 1 \notin ColonsAt(b)

Fields(b) ==
    LET c1 == CHOOSE i \in ColonsAt(b) : \A j \in ColonsAt(b) : i <= j
        c2 == CHOOSE i \in ColonsAt(b) : \A j \in ColonsAt(b) : j <= i
    IN  [h |-> Value(b, 1, c1 - 1),
         m |-> Value(b, c1 + 1, IF c2 = c1 THEN Len(b) ELSE c2 - 1),
         s |-> IF c2 = c1 THEN 0 ELSE Value(b, c2 + 1, Len(b))]

Expected(b) ==
    IF /\ WellFormed(b)
       /\ Fields(b).h <= 23 /\ Fields(b).m <= 59 /\ Fields(b).s <= 59
    THEN [ok |-> TRUE, h |-> Fields(b).h, m |-> Fields(b).m, s |-> Fields(b).s]
    ELSE null

\* C13: for a string of digits and ':' of length 0..8, parseTimeString returns
\* {h, m, s} exactly when the string splits on ':' into two or three non-empty
\* digit strings with 0 <= h <= 23, 0 <= m <= 59, 0 <= s <= 59 (s = 0 with two
\* parts), and null otherwise: "9:05" gives (9, 5, 0), "09:05:30" gives
\* (9, 5, 30), and "25:00", "9:5:5:5" and "" give null.
C13_ParseTimeString ==
    last = "parse" =>
        /\ parseOut = Expected(parseIn)
        /\ parseIn = <<"9", ":", "0", "5">> => parseOut = [ok |-> TRUE, h |-> 9, m |-> 5, s |-> 0]
        /\ parseIn = <<"0", "9", ":", "0", "5", ":", "3", "0">> =>
               parseOut = [ok |-> TRUE, h |-> 9, m |-> 5, s |-> 30]
        /\ parseIn \in {<<"2", "5", ":", "0", "0">>, <<"9", ":", "5", ":", "5", ":", "5">>,
                     <<>>} => parseOut = null

C13_Witness ==
    /\ last = "parse"
    /\ parseIn = <<"2", "3", ":", "5", "9", ":", "0", "9">>
    /\ parseOut = [ok |-> TRUE, h |-> 23, m |-> 59, s |-> 9]

\* ---- C14 ----------------------------------------------------------
EnterStep == keyPressed("Enter")

\* C14: Enter in typing mode has exactly two outcomes.  A buffer that parses
\* sets the manual time to the parsed value, the time mode to MANUAL and the
\* roulette to OFF, leaves typing mode and clears the buffer.  A buffer that
\* does not parse leaves buffer, typing mode, time mode, manual time and
\* roulette (and everything else) as they were and only restarts the hint
\* timer.  Enter outside typing mode changes nothing.
C14_EnterOutcomes ==
    [][EnterStep =>
          IF typingMode /\ Expected(timeInput).ok THEN
              /\ manualH' = Expected(timeInput).h
              /\ manualM' = Expected(timeInput).m
              /\ manualS' = Expected(timeInput).s
              /\ ~useLiveTime' /\ rouletteState' = "off"
              /\ ~typingMode' /\ timeInput' = <<>>
          ELSE IF typingMode THEN
              /\ inputHintTimer' = now
              /\ UNCHANGED <<timeVars, typingMode, timeInput, rouletteVars, phaseVars>>
          ELSE UNCHANGED sketchVars]_vars

C14_Witness ==
    /\ last = "key" /\ ~typingMode /\ timeInput = <<>>
    /\ ~useLiveTime /\ manualH = 5 /\ manualM = 5 /\ manualS = 0

C14_WitnessRejected ==
    /\ last = "key" /\ typingMode /\ timeInput = <<"5", ":">>
    /\ inputHintTimer = now /\ now > 0

\* ---- C15 ----------------------------------------------------------
\* C15: after every Enter in typing mode whose buffer fails to parse, the
\* empty buffer included, the frames drawn while the buffer is not edited
\* display the format hint during the following 900 ms and no longer after.
C15_HintAfterRejectedSubmit ==
    (last = "draw" /\ typingMode /\ submitAt >= 0) =>
        (hintShown <=> now - submitAt < Ms(900))

\* the same for the buffers that are not empty
C15_HintAfterRejectedNonEmpty ==
    (last = "draw" /\ typingMode /\ submitAt >= 0 /\ timeInput # <<>>) =>
        (hintShown <=> now - submitAt < Ms(900))

\* ---- C16 ----------------------------------------------------------
\* C16: in typing mode, a digit key '0'..'9' or the ':' key appends its
\* character to the buffer whenever the buffer has fewer than 8 characters,
\* and changes neither phase mode, phase lock, roulette state nor time mode.
C16_DigitsAreTyped ==
    [][\A k \in Digits \cup {":"} :
           (typingMode /\ Len(timeInput) < INPUT_MAX /\ keyPressed(k)) =>
               /\ timeInput' = Append(timeInput, k)
               /\ UNCHANGED <<phaseMode, manualPhaseEnabled, rouletteState,
                              useLiveTime>>]_vars

\* the same for the keys other than '1', '2' and '3'
C16_OtherDigitsAreTyped ==
    [][\A k \in (Digits \cup {":"}) \ {"1", "2", "3"} :
           (typingMode /\ Len(timeInput) < INPUT_MAX /\ keyPressed(k)) =>
               /\ timeInput' = Append(timeInput, k)
               /\ UNCHANGED <<timeVars, typingMode, inputHintTimer, rouletteVars,
                              phaseVars>>]_vars

\* C17: after every frame, on the canvas of that frame (resized or not since
\* the frame before), sc = min(width / 1080, height / 1460),
\* offX = (width - 1080 * sc) / 2 and offY = (height - 1460 * sc) / 2 in double
\* arithmetic, 1460 being CONTENT_MAX_Y - CONTENT_MIN_Y; gSc, gOffX and gOffY
\* hold the same values; on a canvas of 1080 x 1460 the scale is 1 and both
\* offsets are 0.
C17_ScaleAndOffsets ==
    last = "draw" =>
        LET scale == fpMin(fpDiv(width, 1080), fpDiv(height, 1460))
        IN  /\ CONTENT_MAX_Y - CONTENT_MIN_Y = 1460
            /\ sc = scale
            /\ gSc = scale
            /\ gOffX = fpHalf(fpSub(fpInt(width), fpMul(1080, scale)))
            /\ gOffY = fpHalf(fpSub(fpInt(height), fpMul(1460, scale)))
            /\ (width = 1080 /\ height = 1460 =>
                    /\ gSc = fpInt(1)
                    /\ gOffX = fpInt(0)
                    /\ gOffY = fpInt(0))

\* the second frame of a run, drawn on a canvas of 1080 x 1460
C17_Witness ==
    /\ last = "draw"
    /\ now = Ms(2000)
    /\ width = 1080 /\ height = 1460
    /\ gSc = fpInt(1) /\ gOffX = fpInt(0) /\ gOffY = fpInt(0)

\* -x of a double
fpNeg(x) == [neg |-> ~x.neg /\ x.mag # fpInt(0).mag, mag |-> x.mag]

\* |x - y| of two doubles, exactly
fpDistance(x, y) ==
    IF x.neg = y.neg THEN magDiff(x.mag, y.mag)
    ELSE addLimbs(x.mag, y.mag, LIMBS, 0)

\* C18 as claimed: after a frame on any canvas the logical y = CONTENT_MIN_Y is
\* at screen y = offsetY and y = CONTENT_MAX_Y at height - offsetY; both
\* offsets are >= 0, at least one of them is 0, and the scaled band of
\* 1080 * scale by 1460 * scale is no wider and no higher than the canvas.
C18_Letterbox ==
    last = "draw" =>
        /\ screenY(CONTENT_MIN_Y) = gOffY
        /\ screenY(CONTENT_MAX_Y) = fpAdd(fpInt(height), fpNeg(gOffY))
        /\ ~gOffX.neg
        /\ ~gOffY.neg
        /\ gOffX = fpInt(0) \/ gOffY = fpInt(0)
        /\ magCompare(fpMul(1080, gSc).mag, fpInt(width).mag) <= 0
        /\ magCompare(fpMul(1460, gSc).mag, fpInt(height).mag) <= 0

\* the rounding allowed on a length of dim pixels: dim * 2^-50
Rounding(dim) == <<0, 0, 0, (dim * 1024) \div LIMB, (dim * 1024) % LIMB, 0>>
WithinRounding(m, dim) == magCompare(m, Rounding(dim)) <= 0

\* C18, amended: the same up to the rounding of double arithmetic.  After a
\* frame on any canvas y = CONTENT_MIN_Y is at screen y = offsetY and
\* y = CONTENT_MAX_Y within height * 2^-50 of height - offsetY;
\* offsetX >= -width * 2^-50 and offsetY >= -height * 2^-50, at least one
\* offset is within that distance of 0, and the scaled band exceeds the canvas
\* by at most width * 2^-50 and height * 2^-50.
C18_LetterboxRounded ==
    last = "draw" =>
        /\ screenY(CONTENT_MIN_Y) = gOffY
        /\ WithinRounding(fpDistance(screenY(CONTENT_MAX_Y),
                                     fpAdd(fpInt(height), fpNeg(gOffY))), height)
        /\ gOffX.neg => WithinRounding(gOffX.mag, width)
        /\ gOffY.neg => WithinRounding(gOffY.mag, height)
        /\ WithinRounding(gOffX.mag, width) \/ WithinRounding(gOffY.mag, height)
        /\ magCompare(mulLimbs(1080, gSc.mag, LIMBS, 0),
                      addLimbs(fpInt(width).mag, Rounding(width), LIMBS, 0)) <= 0
        /\ magCompare(mulLimbs(1460, gSc.mag, LIMBS, 0),
                      addLimbs(fpInt(height).mag, Rounding(height), LIMBS, 0)) <= 0

\* a frame on a canvas of 109 x 500: the band fills the width, 1080 * (109 /
\* 1080) rounds to the double above 109 and offsetX is -2^-47
C18_Witness ==
    /\ last = "draw"
    /\ width = 109 /\ height = 500
    /\ gOffX = [neg |-> TRUE, mag |-> <<0, 0, 0, 0, 8192, 0>>]
    /\ ~gOffY.neg /\ gOffY.mag[1] = 176

\* C19: a frame drawn while the roulette is OFF changes none of useLiveTime,
\* manualH, manualM, manualS, rouletteState, rouletteInterval, rouletteNextAt,
\* phaseMode, manualPhaseEnabled, typingMode and timeInput; a frame in any
\* roulette state changes none of useLiveTime, phaseMode, manualPhaseEnabled,
\* typingMode and timeInput; in MANUAL with the roulette OFF a frame resolves
\* the time to the stored (manualH, manualM, manualS), its second S a whole
\* number, whatever the wall clock reads, and to the same value as before it.
C19_FrameKeepsState ==
    /\ [][(last' = "draw" /\ rouletteState = "off") =>
              UNCHANGED <<useLiveTime, manualH, manualM, manualS, rouletteState,
                          rouletteInterval, rouletteNextAt, phaseMode,
                          manualPhaseEnabled, typingMode, timeInput>>]_vars
    /\ [][last' = "draw" =>
              UNCHANGED <<useLiveTime, phaseMode, manualPhaseEnabled,
                          typingMode, timeInput>>]_vars
    /\ []((last = "draw" /\ ~useLiveTime /\ rouletteState = "off") =>
              \A c \in Clocks :
                  /\ timeSource(c) = <<manualH, manualM, manualS>>
                  /\ secondsValue(c, now) = Ms(1000) * manualS)
    /\ [][(last' = "draw" /\ ~useLiveTime /\ rouletteState = "off") =>
              \A c \in Clocks :
                  /\ timeSource(c)' = timeSource(c)
                  /\ secondsValue(c, now)' = secondsValue(c, now)]_vars

\* a frame drawn in MANUAL with the roulette OFF, while a time is being typed
\* under a TRI lock
C19_Witness ==
    /\ last = "draw"
    /\ ~useLiveTime /\ rouletteState = "off"
    /\ typingMode /\ timeInput # <<>>
    /\ manualPhaseEnabled /\ phaseMode = "tri"
    /\ now >= Ms(1500)

\* a frame ticks the spinning roulette: the manual time changes, the flags do not
C19_WitnessTick ==
    /\ last = "draw"
    /\ rouletteState = "spin" /\ rouletteNextAt = now + Ms(ROULETTE_FAST)
    /\ ~useLiveTime /\ manualPhaseEnabled /\ phaseMode = "geo"

\* C20 as claimed: two runs of one frame from the same state, roulette OFF,
\* that read the same wall clock on the same canvas put out the same alphas,
\* the same hNow, mNow, sNow and the same transform, and in MANUAL the same S
\* and the same hour, minute and second marker, whatever millis() reads in
\* each run.
C20_Deterministic ==
    last = "draw" =>
        LET a == runs[1]
            b == runs[2]
        IN  /\ a.alphas = b.alphas
            /\ a.time = b.time
            /\ a.transform = b.transform
            /\ ~useLiveTime =>
                   /\ a.S = b.S
                   /\ a.hourMarker = b.hourMarker
                   /\ a.minuteMarker = b.minuteMarker
                   /\ a.secondMarker = b.secondMarker

\* C20, amended: the two runs put out the same hNow, mNow, sNow and the same
\* transform; the same alphas when their deltaTime is the same; in MANUAL the
\* same S, minute marker and second marker whatever millis() reads; and the
\* same S and the same three markers when millis() reads the same in both.
\* The first run is the frame drawn: its alphas and transform are the ones
\* draw() stored.
C20_DeterministicGivenMillis ==
    last = "draw" =>
        LET a == runs[1]
            b == runs[2]
        IN  /\ a.time = b.time
            /\ a.transform = b.transform
            /\ a.deltaTime = b.deltaTime => a.alphas = b.alphas
            /\ ~useLiveTime =>
                   /\ a.S = b.S
                   /\ a.minuteMarker = b.minuteMarker
                   /\ a.secondMarker = b.secondMarker
            /\ a.millis = b.millis =>
                   /\ a.S = b.S
                   /\ a.hourMarker = b.hourMarker
                   /\ a.minuteMarker = b.minuteMarker
                   /\ a.secondMarker = b.secondMarker
            /\ a.millis = now
            /\ a.alphas = <<geoAlpha, triContentAlpha>>
            /\ a.transform = <<sc, gOffX, gOffY>>

\* two runs in MANUAL at 3:15:40 with the same deltaTime, one reading
\* millis() = 1000 and the other 7000: the minute and the second marker are
\* the same, the hour markers are more than a pixel apart
C20_Witness ==
    /\ last = "draw"
    /\ ~useLiveTime /\ manualH = 3 /\ manualM = 15 /\ manualS = 40
    /\ runs[1].millis = Ms(1000) /\ runs[2].millis = Ms(7000)
    /\ runs[1].deltaTime = runs[2].deltaTime
    /\ runs[1].alphas = runs[2].alphas
    /\ runs[1].minuteMarker = runs[2].minuteMarker
    /\ runs[1].secondMarker = runs[2].secondMarker
    /\ runs[1].hourMarker[1] - runs[2].hourMarker[1] > 10

\* two runs in AUTO with different deltaTime: one on the fade-out ramp, the
\* other past it
C20_WitnessDelta ==
    /\ last = "draw"
    /\ phaseMode = "auto"
    /\ runs[1].millis = runs[2].millis
    /\ runs[1].deltaTime # runs[2].deltaTime
    /\ runs[1].alphas # runs[2].alphas

\* ---- C21 ---------------------------------------------------------------
\* block b of draw() has run in the frame being drawn
Done(b) == \E i \in 1..Len(frame.done) : frame.done[i] = b
\* block a has run whenever block b has
Before(a, b) == Done(b) => Done(a)
Drawing == {"hourShape", "secondsOval", "minutes", "triangle", "ui"}

\* the frame's local values that block b reads have been given their values
IsSet(b) ==
    /\ frame.hms # <<>> /\ frame.S # -1
    /\ b \in {"hourShape", "triangle"} => frame.hourMarker # <<>>
    /\ b \in {"secondsOval", "triangle"} => frame.secondMarker # <<>>
    /\ b \in {"minutes", "triangle"} => frame.minuteMarker # <<>>

\* while a frame is drawn no key handler runs; every element on the canvas
\* was drawn from values that are set and are still the frame's values
NoLaterValue ==
    /\ last = "key" => betweenFrames
    /\ last = "draw" =>
           \A i \in 1..Len(frame.drawn) :
               LET d == frame.drawn[i] IN
               /\ d.used = Used(frame, d.name)
               /\ d.name \in Drawing \ {"ui"} => IsSet(d.name)

\* C21 as stated: within a frame the roulette tick and the resolution of the
\* time value come first, then the alphas, then the transform, then the
\* markers, then all rendering; no step reads a value produced later
C21_Pipeline ==
    /\ Before("roulette", "phases") /\ Before("timeSource", "phases")
    /\ Before("phases", "scale")
    /\ Before("scale", "hourShape")
    /\ Before("hourShape", "secondsOval") /\ Before("secondsOval", "minutes")
    /\ frame.drawn # <<>> => Done("minutes")
    /\ NoLaterValue

\* C21, amended: within a frame the roulette tick comes first, then the
\* alphas, then the transform, then the resolution of the time value, then
\* the three markers, each shape drawn with its marker, then the triangle and
\* the panels; the background is drawn first and the grid before the time
\* value is resolved; no step reads a value produced later
C21_PipelineInCodeOrder ==
    /\ Before("background", "timers") /\ Before("timers", "roulette")
    /\ Before("roulette", "phases")
    /\ Before("phases", "scale")
    /\ Before("scale", "grid") /\ Before("grid", "timeSource")
    /\ Before("timeSource", "hourShape")
    /\ Before("hourShape", "secondsOval") /\ Before("secondsOval", "minutes")
    /\ Before("minutes", "triangle") /\ Before("triangle", "ui")
    /\ \A i \in 1..Len(frame.drawn) :
           /\ Done(frame.drawn[i].name)
           /\ frame.drawn[i].name \in Drawing => Done("timeSource")
    /\ NoLaterValue

\* a whole frame was drawn after the keys 2 and Z: the roulette ticked, the
\* triangle phase is fully shown, the triangle joins the three markers
C21_Witness ==
    /\ last = "draw"
    /\ Len(frame.done) = Len(Blocks)
    /\ rouletteState = "spin" /\ ~useLiveTime
    /\ frame.hms = <<manualH, manualM, manualS>>
    /\ triContentAlpha = 255
    /\ \E i \in 1..Len(frame.drawn) :
           /\ frame.drawn[i].name = "triangle"
           /\ frame.drawn[i].used =
                  <<frame.hourMarker, frame.secondMarker, frame.minuteMarker>>

\* ---- C22 ---------------------------------------------------------------
\* the roulette block of draw() runs in this step
RouletteBlock == frame'.done = Append(frame.done, "roulette")
\* the roulette was started and no frame has been drawn since, until this one
FirstFrame == rouletteState = "spin" /\ rouletteNextAt = now - frame.dt

\* C22: starting the roulette schedules the first tick at the current time;
\* the first frame after the start ticks: it sets a manual time with h in
\* 0..23 and m, s in 0..59, stays in SPIN and schedules the next tick
\* ROULETTE_FAST after its own time; the time value the frame resolves is that
\* manual time; after the roulette block no tick is due in the same frame, and
\* no other block of a frame changes the manual time.
C22_FirstTickImmediate ==
    /\ [][(last' = "key" /\ rouletteState = "off" /\ rouletteState' = "spin") =>
            rouletteNextAt' = now']_vars
    /\ [][(RouletteBlock /\ FirstFrame) =>
            /\ ~useLiveTime'
            /\ manualH' \in 0..23 /\ manualM' \in 0..59 /\ manualS' \in 0..59
            /\ rouletteState' = "spin"
            /\ rouletteInterval' = Ms(ROULETTE_FAST)
            /\ rouletteNextAt' = now + Ms(ROULETTE_FAST)]_vars
    /\ []((last = "draw" /\ Done("timeSource") /\ ~useLiveTime) =>
            frame.hms = <<manualH, manualM, manualS>>)
    /\ []((last = "draw" /\ Done("roulette") /\ rouletteState # "off") =>
            rouletteNextAt > now)
    /\ [][(last' = "draw" /\ <<manualH, manualM, manualS>>' # <<manualH, manualM, manualS>>)
            => RouletteBlock]_vars

\* the frame drawn in the millisecond of the start has ticked: the time went
\* from LIVE to a drawn manual time, which the frame resolved, and the next tick
\* is due ROULETTE_FAST later
C22_Witness ==
    /\ last = "draw" /\ Done("timeSource") /\ frame.dt = 0
    /\ rouletteState = "spin" /\ rouletteNextAt = now + Ms(ROULETTE_FAST)
    /\ frame.hms = <<23, 59, 59>> /\ manualH = 23
    /\ now > 0

\* ---- C23 ---------------------------------------------------------------
TypeStep == keyPressed("t") \/ keyPressed("T")

\* C23: a frame leaves rouletteState as it is, or takes it from BRAKE to OFF
\* when the interval has reached ROULETTE_SLOW_STOP; SPIN is left only by a
\* key, Z to BRAKE, R or T to OFF; BRAKE is entered only from SPIN, by Z.
C23_FramesKeepSpin ==
    /\ [][last' = "draw" =>
            \/ rouletteState' = rouletteState
            \/ /\ rouletteState = "brake" /\ rouletteState' = "off"
               /\ rouletteInterval' >= Ms(ROULETTE_SLOW_STOP)]_vars
    /\ [][(rouletteState = "spin" /\ rouletteState' # "spin") =>
            /\ last' = "key"
            /\ \/ ToggleStep /\ rouletteState' = "brake"
               \/ (ResetStep \/ TypeStep) /\ rouletteState' = "off"]_vars
    /\ [][(rouletteState # "brake" /\ rouletteState' = "brake") =>
            rouletteState = "spin" /\ ToggleStep]_vars

\* a roulette still in SPIN after more than ten seconds of frames and ticks
C23_Witness ==
    /\ last = "draw" /\ rouletteState = "spin"
    /\ rouletteNextAt = now + Ms(ROULETTE_FAST)
    /\ now >= Ms(10500)

\* a frame's brake tick has stopped the roulette
C23_WitnessStop ==
    /\ last = "draw" /\ rouletteState = "off" /\ ~useLiveTime
    /\ rouletteInterval >= Ms(ROULETTE_SLOW_STOP)
    /\ rouletteNextAt = now + rouletteInterval

\* ---- C24 ---------------------------------------------------------------
\* C24: the time mode goes from MANUAL to LIVE in a step of R and in no
\* other step, key or frame; R sets LIVE; it goes from LIVE to MANUAL only by
\* Z starting the roulette or by Enter.
C24_OnlyResetGoesLive ==
    /\ [][(~useLiveTime /\ useLiveTime') => (last' = "key" /\ ResetStep)]_vars
    /\ [][ResetStep => useLiveTime']_vars
    /\ [][(useLiveTime /\ ~useLiveTime') =>
            /\ last' = "key"
            /\ (ToggleStep /\ rouletteState' = "spin") \/ EnterStep]_vars

\* still MANUAL after a brake has stopped by itself and T was pressed
C24_Witness ==
    /\ ~useLiveTime /\ last = "key" /\ typingMode
    /\ rouletteState = "off" /\ rouletteInterval >= Ms(ROULETTE_SLOW_STOP)
    /\ now >= Ms(ManualKeyDeadline)

\* still MANUAL, with the time typed as 5:5, after T, Escape, a phase key and
\* frames
C24_WitnessEntry ==
    /\ ~useLiveTime /\ <<manualH, manualM, manualS>> = <<5, 5, 0>>
    /\ last = "draw" /\ now >= Ms(MaxNowManual)
    /\ manualPhaseEnabled /\ ~typingMode /\ inputHintTimer > 0

\* ---- C25 ---------------------------------------------------------------
\* the cycle position is on the first ramp, less than 1/255 of it before its end
EndOfFirstRamp(c) == c < Ms(1500) /\ 255 * (Ms(1500) - c) < Ms(1500)

\* C25: in every state, in every phase mode and at every cycle position,
\* geoAlpha and triContentAlpha are integers in 0..255 and one of them is 0;
\* after a frame in AUTO both are 0 at cycle 13.0 and at the end of the first
\* ramp.
C25_OneLayerAtATime ==
    /\ geoAlpha \in 0..255 /\ triContentAlpha \in 0..255
    /\ geoAlpha = 0 \/ triContentAlpha = 0
    /\ AutoDrawn =>
        /\ CycleOf(fadeTimer) = Ms(13000) => geoAlpha = 0 /\ triContentAlpha = 0
        /\ EndOfFirstRamp(CycleOf(fadeTimer)) => geoAlpha = 0 /\ triContentAlpha = 0

\* a frame at cycle 13.0: the triangle layer has faded out, the geometry
\* layer has not begun to fade in
C25_Witness ==
    /\ AutoDrawn /\ CycleOf(fadeTimer) = Ms(13000)
    /\ geoAlpha = 0 /\ triContentAlpha = 0

\* a frame 2 ms before the end of the first ramp
C25_WitnessRamp ==
    /\ AutoDrawn /\ fadeTimer = Ms(1498)
    /\ geoAlpha = 0 /\ triContentAlpha = 0

\* ---- C26 ---------------------------------------------------------------
\* C26: typing mode is entered only by T, and with an empty buffer, whatever
\* the buffer held before; the buffer never holds more than 8 characters.
C26_SessionStartsEmpty ==
    /\ [][(~typingMode /\ typingMode') => (TypeStep /\ timeInput' = <<>>)]_vars
    /\ [](Len(timeInput) <= 8)

\* a session was left by T with a full buffer, which the closed session keeps:
\* the next T has 8 characters to clear
C26_Witness ==
    /\ ~typingMode /\ Len(timeInput) = 8 /\ last = "key"

\* a session entered after a frame, with the clock of the last key stroke
C26_WitnessEntered ==
    /\ typingMode /\ timeInput = <<>> /\ last = "key"
    /\ now > 0 /\ inputHintTimer = now /\ ~useLiveTime /\ manualH = 5

\* ---- C27 ---------------------------------------------------------------
\* H12 % 12 of the drawn frame in ms, from the time value it resolved
FrameH12 == ((frame.hms[1] % 12) * 3600 + frame.hms[2] * 60) * 1000 + frame.S \div 1000
\* the indices of the numbers the frame drew in the active style
ActiveLabels == {k \in 1..12 : frame.labels[k].isActive}
LabelsDrawn == last = "draw" /\ frame.labels # <<>>

\* C27: in every frame the number d in 1..11 is active exactly when
\* |H12 - d| < 0.5, and the number 12 exactly when H12 is in [0, 0.5) or in
\* (11.5, 12); off the half-hour boundaries exactly one number is active, and
\* never more than one.
C27_ActiveLabel ==
    LabelsDrawn =>
        /\ \A d \in 1..11 :
               frame.labels[d + 1].disp = d
               /\ (frame.labels[d + 1].isActive <=> abs(FrameH12 - d * HOUR) < HOUR \div 2)
        /\ frame.labels[1].disp = 12
        /\ frame.labels[1].isActive <=>
               (FrameH12 < HOUR \div 2 \/ FrameH12 > 23 * (HOUR \div 2))
        /\ Cardinality(ActiveLabels) <= 1
        /\ FrameH12 % (HOUR \div 2) # 0 \/ FrameH12 % HOUR = 0 =>
               Cardinality(ActiveLabels) = 1

\* C27 from the half hour after 12 on: the statement holds on every frame
\* whose H12 is not in [0, 0.5)
C27_ActiveLabelFromHalfPast ==
    (LabelsDrawn /\ FrameH12 >= HOUR \div 2) => C27_ActiveLabel

\* a frame at 11:59:59 MANUAL: the number 12 is the active one
C27_WitnessTwelve ==
    /\ LabelsDrawn /\ frame.hms = <<23, 59, 59>> /\ ActiveLabels = {1}

\* a frame at 12:29:59 MANUAL: no number is drawn in the active style
C27_WitnessNone ==
    /\ LabelsDrawn /\ frame.hms = <<12, 29, 59>> /\ ActiveLabels = {}

====
